---- MODULE Spec2Model ----
(***************************************************************************)
(* State-machine model of the retrieval pipeline of the AI study tutor:    *)
(*   backend/ingestion/langchain_vector_store.py  LangChainVectorStore     *)
(*   backend/tutoring/memory_manager.py           ConversationMemory(...)  *)
(*   backend/tutoring/langchain_tutor.py          LangChainTutor           *)
(*   backend/tutoring/rag_service.py              LangChainRAGService      *)
(*                                                                         *)
(* Python values are encoded as follows.                                   *)
(*   Optional[T]   a sequence of length 0 (None) or 1 (the value)          *)
(*   str           a record [tag, len, pad, parts]: tag names the content, *)
(*                 len is the length without surrounding whitespace, pad   *)
(*                 the amount of surrounding whitespace, parts the source  *)
(*                 texts a synthesized answer was built from               *)
(*   chunk text    a record [tag, key, off, len]: the substring of length  *)
(*                 len at offset off of the base text tag; key is the      *)
(*                 position of the base text in a 1-dimensional embedding  *)
(*                 space                                                   *)
(*   float score   a record [num, den] (the rational num / den)            *)
(***************************************************************************)
EXTENDS Integers, Sequences, FiniteSets, TLC

VARIABLES
    vectorstore,   \* LangChainVectorStore.vectorstore: Optional sequence of Documents
    memories,      \* ConversationMemoryManager.memories: user id -> object id
    heap,          \* the ConversationMemory objects allocated so far, by object id
    handle,        \* Optional object id: the ConversationMemory a caller last obtained
    last,          \* record of the last completed operation, its inputs and its result
    nAdds,         \* number of add_chunks calls made
    nAsks,         \* number of answer_question calls made
    nMem,          \* number of direct memory operations made
    passed,        \* number of chunks passed to add_chunks so far
    log,           \* a standalone ConversationMemory (class-level specification)
    hist,          \* every message ever passed to log's add_message, in order
    em,            \* an EmbeddingManager: its FAISS index and its chunks list
    parser,        \* a DocumentParser, the text it is given and its chunking loop
    threads,       \* the calls in progress on shared objects, each with its locals
    disk,          \* what persist_directory holds: the saved index, if any
    app            \* the module globals of api/main.py and the last response

vars == <<vectorstore, memories, heap, handle, last, nAdds, nAsks, nMem, passed, log, hist,
         em, parser, threads, disk, app>>

-----------------------------------------------------------------------------
(* Bounds of the model *)

MaxAdds == 2
MaxAsks == 1
MaxMemOps == 5
MaxBound == 3
Extra == 5
MaxLen == 5
MaxChunks == 3
MaxCalls == 3

(* Program constants *)

chunk_size == 1000
chunk_overlap == 200
DefaultMaxMessages == 10
ContextChunks == 3
HistoryWindow == 4
MinAnswerLen == 20
SourceTextLimit == 200

-----------------------------------------------------------------------------
(* Python helpers *)

None == <<>>
Some(x) == <<x>>

Min(a, b) == IF a <= b THEN a ELSE b

\* s[:n]
Take(s, n) == SubSeq(s, 1, Min(n, Len(s)))

\* s[-n:] for n >= 1
LastN(s, n) == IF Len(s) <= n THEN s ELSE SubSeq(s, Len(s) - n + 1, Len(s))

\* s[-n:] as Python evaluates it: s[-0:] is s[0:], the whole list
PySuffix(s, n) == IF n = 0 THEN s ELSE LastN(s, n)

RECURSIVE SumSeq(_)
SumSeq(s) == IF s = <<>> THEN 0 ELSE Head(s) + SumSeq(Tail(s))

Str(tag, n) == [tag |-> tag, len |-> n, pad |-> 0, parts |-> <<>>]

\* str.strip(): removes the surrounding whitespace
strip(s) == [s EXCEPT !.pad = 0]

\* len(s)
StrLen(s) == s.len + s.pad

\* truthiness of a str
Truthy(s) == StrLen(s) > 0

-----------------------------------------------------------------------------
(* memory_manager.py *)

ConversationMemory(user_id, max_messages) ==
    [user_id |-> user_id, max_messages |-> max_messages, messages |-> <<>>]

\* add_message keeping the first max_messages entries instead of the last
add_message_keep_first(mem, role, content) ==
    LET appended == Append(mem.messages, <<role, content>>)
    IN  [mem EXCEPT !.messages =
            IF Len(appended) > mem.max_messages
            THEN Take(appended, mem.max_messages)
            ELSE appended]

add_message(mem, role, content) ==
    LET appended == Append(mem.messages, <<role, content>>)
    IN  [mem EXCEPT !.messages =
            IF Len(appended) > mem.max_messages
            THEN PySuffix(appended, mem.max_messages)
            ELSE appended]

get_messages(mem) == mem.messages

clear(mem) == [mem EXCEPT !.messages = <<>>]

new_memories == [u \in {} |-> 0]

\* d[key] on a dict: KeyError when the key is absent
dict_get(d, key) ==
    IF key \in DOMAIN d THEN [raised |-> FALSE, value |-> d[key]]
    ELSE [raised |-> TRUE, value |-> 0]

\* get_memory without the membership test: a new log on every call
get_memory_always_new(ms, hp, user_id) ==
    [raised |-> FALSE,
     memories |-> [u \in DOMAIN ms \cup {user_id} |->
                      IF u = user_id THEN Len(hp) + 1 ELSE ms[u]],
     heap |-> Append(hp, ConversationMemory(user_id, DefaultMaxMessages)),
     ref |-> Len(hp) + 1]

\* ConversationMemoryManager.get_memory on the manager state (ms, hp): the
\* manager after the call and the object it returns (ref)
get_memory(ms, hp, user_id) ==
    LET created == user_id \notin DOMAIN ms
        ms1 == IF created THEN (user_id :> (Len(hp) + 1)) @@ ms ELSE ms
        hp1 == IF created
               THEN Append(hp, ConversationMemory(user_id, DefaultMaxMessages))
               ELSE hp
        found == dict_get(ms1, user_id)
    IN  [raised |-> found.raised, memories |-> ms1, heap |-> hp1, ref |-> found.value]

\* clear_memory that empties the log but keeps it in the store
clear_memory_keep_key(ms, hp, user_id) ==
    IF user_id \in DOMAIN ms
    THEN [raised |-> FALSE, memories |-> ms,
          heap |-> [hp EXCEPT ![ms[user_id]] = clear(@)]]
    ELSE [raised |-> FALSE, memories |-> ms, heap |-> hp]

\* ConversationMemoryManager.clear_memory
clear_memory(ms, hp, user_id) ==
    IF user_id \in DOMAIN ms
    THEN [raised |-> FALSE,
          memories |-> [u \in DOMAIN ms \ {user_id} |-> ms[u]],
          heap |-> [hp EXCEPT ![ms[user_id]] = clear(@)]]
    ELSE [raised |-> FALSE, memories |-> ms, heap |-> hp]

-----------------------------------------------------------------------------
(* langchain_vector_store.py *)

Text(tag, key, n) == [tag |-> tag, key |-> key, off |-> 0, len |-> n]

\* RecursiveCharacterTextSplitter(chunk_size, chunk_overlap).split_text on a
\* text without separators: windows of chunk_size characters, each starting
\* chunk_size - chunk_overlap after the previous one; nothing for empty text
RECURSIVE split_from(_, _)
split_from(text, start) ==
    IF text.len - start <= chunk_size
    THEN << [text EXCEPT !.off = text.off + start, !.len = text.len - start] >>
    ELSE << [text EXCEPT !.off = text.off + start, !.len = chunk_size] >>
         \o split_from(text, start + (chunk_size - chunk_overlap))

split_text(text) == IF text.len = 0 THEN <<>> ELSE split_from(text, 0)

\* the Documents add_chunks builds from one chunk (empty text: none)
chunk_documents(chunk) ==
    IF chunk.text.len = 0
    THEN <<>>
    ELSE LET split_texts == split_text(chunk.text)
         IN  [i \in 1..Len(split_texts) |->
                [page_content |-> split_texts[i],
                 metadata |-> [source_file |-> chunk.source_file,
                               section |-> chunk.section,
                               chunk_id |-> <<chunk.chunk_id, i - 1>>,
                               original_chunk_id |-> chunk.chunk_id]]]

RECURSIVE build_documents(_)
build_documents(chunks) ==
    IF chunks = <<>> THEN <<>>
    ELSE chunk_documents(Head(chunks)) \o build_documents(Tail(chunks))

\* LangChainVectorStore.add_chunks: the vectorstore after the call
add_chunks(vs, chunks) ==
    IF chunks = <<>> THEN vs
    ELSE LET documents == build_documents(chunks)
         IN  IF documents = <<>> THEN vs
             ELSE IF vs = None
                  THEN Some(documents)
                  ELSE Some(vs[1] \o documents)

\* LangChainVectorStore.count
count(vs) == IF vs = None THEN 0 ELSE Len(vs[1])

\* the embedding capability, one dimension
embed_text(text) == 10 * text.key + (text.off \div 100)
embed_query(query) == IF query.tag = "q1" THEN 0 ELSE 28

\* the squared L2 distance faiss.IndexFlatL2 reports
sq_l2(x, y) == (x - y) * (x - y)

\* the distance of a placeholder hit: the largest float32, above every
\* distance between two embeddings
FLT_MAX == 1000000

\* the (id, distance) pairs of the vectors i, i+1, ... of an index, nearest
\* first, ties in insertion order; ids count from 0
RECURSIVE insert_by_distance(_, _)
insert_by_distance(sorted, pair) ==
    IF sorted = <<>> \/ pair[2] <= Head(sorted)[2]
    THEN <<pair>> \o sorted
    ELSE <<Head(sorted)>> \o insert_by_distance(Tail(sorted), pair)

RECURSIVE nearest_from(_, _, _)
nearest_from(vectors, x, i) ==
    IF i > Len(vectors) THEN <<>>
    ELSE insert_by_distance(nearest_from(vectors, x, i + 1),
                            <<i - 1, sq_l2(x, vectors[i])>>)

RECURSIVE placeholders(_)
placeholders(n) ==
    IF n <= 0 THEN <<>> ELSE << <<-1, FLT_MAX>> >> \o placeholders(n - 1)

\* faiss.IndexFlatL2.search(x, k): exactly k (id, distance) hits, nearest
\* first; an index of fewer than k vectors pads them with placeholders of
\* id -1
index_search(vectors, x, k) ==
    LET hits == Take(nearest_from(vectors, x, 1), k)
    IN  hits \o placeholders(k - Len(hits))

\* the vectors of a FAISS store: one per Document, in insertion order
RECURSIVE document_vectors(_)
document_vectors(docs) ==
    IF docs = <<>> THEN <<>>
    ELSE <<embed_text(Head(docs).page_content)>> \o document_vectors(Tail(docs))

\* the (Document, distance) pairs of the hits, placeholders skipped
RECURSIVE hits_to_documents(_, _)
hits_to_documents(docs, hits) ==
    IF hits = <<>> THEN <<>>
    ELSE IF Head(hits)[1] = -1 THEN hits_to_documents(docs, Tail(hits))
    ELSE << <<docs[Head(hits)[1] + 1], Head(hits)[2]>> >>
         \o hits_to_documents(docs, Tail(hits))

\* FAISS.similarity_search_with_score(query, k)
similarity_search_with_score(docs, query, k) ==
    hits_to_documents(docs, index_search(document_vectors(docs), embed_query(query), k))

\* the chunk dicts search builds from the (Document, distance) pairs
RECURSIVE result_chunks(_)
result_chunks(results) ==
    IF results = <<>> THEN <<>>
    ELSE << [text |-> Head(results)[1].page_content,
             source_file |-> Head(results)[1].metadata.source_file,
             section |-> Head(results)[1].metadata.section,
             chunk_id |-> Head(results)[1].metadata.chunk_id,
             distance |-> Head(results)[2],
             relevance_score |-> [num |-> 1, den |-> 1 + Head(results)[2]]] >>
         \o result_chunks(Tail(results))

\* search with neither the None test nor the try block: an attribute access
\* on None, or a failure of the embedding or the index, reaches the caller
search_unguarded(vs, query, top_k, fails) ==
    IF vs = None \/ fails
    THEN [raised |-> TRUE, chunks |-> <<>>]
    ELSE [raised |-> FALSE,
          chunks |-> result_chunks(similarity_search_with_score(vs[1], query, top_k))]

\* LangChainVectorStore.search; fails: the embedding or the index raises.
\* raised: an exception left the call, chunks: the list returned
search(vs, query, top_k, fails) ==
    IF vs = None THEN [raised |-> FALSE, chunks |-> <<>>]
    ELSE IF fails
    THEN \* except Exception
         [raised |-> FALSE, chunks |-> <<>>]
    ELSE [raised |-> FALSE,
          chunks |-> result_chunks(similarity_search_with_score(vs[1], query, top_k))]

-----------------------------------------------------------------------------
(* embedding_manager.py *)

\* EmbeddingManager.__init__: no index yet, no chunks
EmbeddingManager == [index |-> None, chunks |-> <<>>]

\* the embeddings of the texts of chunks, in order
RECURSIVE encode(_)
encode(chunks) ==
    IF chunks = <<>> THEN <<>>
    ELSE <<embed_text(Head(chunks).text)>> \o encode(Tail(chunks))

\* EmbeddingManager.add_chunks: the object after the call; fails: the
\* embedding model raises.  An empty batch is encoded to an array without a
\* second dimension, which index.add rejects after the index was created
EmbeddingManager_add_chunks(self, chunks, fails) ==
    LET embeddings == encode(chunks)
        index == IF self.index = None THEN <<>> ELSE self.index[1]
    IN  IF fails
        THEN [raised |-> TRUE, index |-> self.index, chunks |-> self.chunks]
        ELSE IF chunks = <<>>
        THEN [raised |-> TRUE, index |-> Some(index), chunks |-> self.chunks]
        ELSE [raised |-> FALSE, index |-> Some(index \o embeddings),
              chunks |-> self.chunks \o chunks]

\* chunks[idx] as Python evaluates it: a negative idx counts from the end
py_index(s, idx) == IF idx < 0 THEN s[Len(s) + idx + 1] ELSE s[idx + 1]

\* the results EmbeddingManager.search builds from the hits of the index
RECURSIVE hits_to_results(_, _)
hits_to_results(chunks, hits) ==
    IF hits = <<>> THEN <<>>
    ELSE IF Head(hits)[1] < Len(chunks)
    THEN << [text |-> py_index(chunks, Head(hits)[1]).text,
             source_file |-> py_index(chunks, Head(hits)[1]).source_file,
             section |-> py_index(chunks, Head(hits)[1]).section,
             chunk_id |-> py_index(chunks, Head(hits)[1]).chunk_id,
             distance |-> Head(hits)[2]] >>
         \o hits_to_results(chunks, Tail(hits))
    ELSE hits_to_results(chunks, Tail(hits))

\* EmbeddingManager.search; fails: the embedding or the index raises
EmbeddingManager_search(self, query, top_k, fails) ==
    IF self.index = None \/ Len(self.chunks) = 0
    THEN [raised |-> FALSE, results |-> <<>>]
    ELSE IF fails
    THEN [raised |-> TRUE, results |-> <<>>]
    ELSE [raised |-> FALSE,
          results |-> hits_to_results(self.chunks,
                          index_search(self.index[1], embed_query(query), top_k))]

\* EmbeddingManager.count
EmbeddingManager_count(self) == Len(self.chunks)

-----------------------------------------------------------------------------
(* langchain_tutor.py *)

NoInfoAnswer == Str("insufficient_information", 98)
ApologyAnswer == Str("could_not_generate", 90)
SimpleHeaderLen == 67
SimpleFooterLen == 54

\* truthiness of an Optional[str] user id: None and "" are falsy
UserGiven(user_id) == user_id /= None /\ user_id[1] /= ""

\* LangChainTutor._prepare_context: one numbered part per chunk of chunks[:3]
_prepare_context(chunks) ==
    LET top == Take(chunks, ContextChunks)
    IN  [i \in 1..Len(top) |->
            [index |-> i, source_file |-> top[i].source_file,
             section |-> top[i].section, text |-> top[i].text]]

\* LangChainTutor._create_prompt
_create_prompt(query, context) == [context |-> context, query |-> query]

\* LangChainTutor._simple_answer: header, three lines per chunk of
\* context_chunks[:3], footer, joined by newlines
_simple_answer(query, context_chunks) ==
    IF Len(context_chunks) = 0
    THEN NoInfoAnswer
    ELSE LET top == Take(context_chunks, ContextChunks)
             m == Len(top)
             lines == [i \in 1..m |->
                        (12 + Len(top[i].source_file) + Len(top[i].section))
                        + (3 + top[i].text.len)]
         IN  [tag |-> "simple_answer",
              len |-> SimpleHeaderLen + SumSeq(lines) + SimpleFooterLen + (3 * m + 1),
              pad |-> 0,
              parts |-> [i \in 1..m |-> top[i].text]]

\* the two add_message calls made on every log of the manager instead of
\* the one of the user
save_exchange_to_all(hp, ref, query, answer) ==
    [i \in 1..Len(hp) |->
        add_message(add_message(hp[i], "user", query), "assistant", answer)]

\* memory.add_message("user", query); memory.add_message("assistant", answer)
\* on the object ref of the heap
save_exchange(hp, ref, query, answer) ==
    [hp EXCEPT ![ref] = add_message(add_message(@, "user", query), "assistant", answer)]

\* the try block of LangChainTutor.generate_answer on the manager state
\* (ms, hp); llm is the outcome of self.llm.invoke: it raises, or returns a
\* content string.  raised: an exception left the block
generate_answer_try(ms, hp, query, context_chunks, user_id, llm) ==
    LET context_text == _prepare_context(context_chunks)
        prompt == _create_prompt(query, context_text)
        got == IF UserGiven(user_id)
               THEN get_memory(ms, hp, user_id[1])
               ELSE [raised |-> FALSE, memories |-> ms, heap |-> hp, ref |-> 0]
        memory == IF UserGiven(user_id) /\ ~got.raised THEN Some(got.ref) ELSE None
        chat_history == IF memory /= None
                        THEN get_messages(got.heap[got.ref]) ELSE <<>>
        messages == [history |-> PySuffix(chat_history, HistoryWindow),
                     prompt |-> prompt]
    IN  IF got.raised
        THEN [raised |-> TRUE, memories |-> got.memories, heap |-> got.heap,
              request |-> None]
        ELSE IF llm.raises
        THEN [raised |-> TRUE, memories |-> got.memories, heap |-> got.heap,
              request |-> Some(messages)]
        ELSE LET answer == strip(llm.content)
                 saved == IF UserGiven(user_id) /\ memory /= None
                          THEN save_exchange(got.heap, got.ref, query, answer)
                          ELSE got.heap
             IN  [raised |-> FALSE,
                  answer |-> IF Truthy(answer) /\ StrLen(strip(answer)) > MinAnswerLen
                             THEN answer ELSE ApologyAnswer,
                  memories |-> got.memories, heap |-> saved,
                  request |-> Some(messages)]

\* generate_answer without its except clause: a failure of the generation
\* call reaches the caller
generate_answer_no_except(ms, hp, query, context_chunks, user_id, llm) ==
    IF Len(context_chunks) = 0
    THEN [raised |-> FALSE, answer |-> NoInfoAnswer, memories |-> ms, heap |-> hp,
          request |-> None]
    ELSE generate_answer_try(ms, hp, query, context_chunks, user_id, llm)

\* LangChainTutor.generate_answer
generate_answer(ms, hp, query, context_chunks, user_id, llm) ==
    IF Len(context_chunks) = 0
    THEN [raised |-> FALSE, answer |-> NoInfoAnswer, memories |-> ms, heap |-> hp,
          request |-> None]
    ELSE LET try == generate_answer_try(ms, hp, query, context_chunks, user_id, llm)
         IN  IF try.raised
             THEN \* except Exception
                  [raised |-> FALSE,
                   answer |-> _simple_answer(query, context_chunks),
                   memories |-> try.memories, heap |-> try.heap,
                   request |-> try.request]
             ELSE try

-----------------------------------------------------------------------------
(* rag_service.py *)

\* the methods class LangChainVectorStore defines
VectorStoreMethods ==
    {"__init__", "_load_vectorstore", "add_chunks", "search", "count",
     "_save_vectorstore"}

\* truncation that also marks a text of exactly 200 characters
truncate_at_limit(text) ==
    IF text.len >= SourceTextLimit
    THEN [head |-> [text EXCEPT !.len = SourceTextLimit], ellipsis |-> TRUE]
    ELSE [head |-> text, ellipsis |-> FALSE]

\* text[:200] + '...' if len(text) > 200 else text
truncate(text) ==
    IF text.len > SourceTextLimit
    THEN [head |-> [text EXCEPT !.len = SourceTextLimit], ellipsis |-> TRUE]
    ELSE [head |-> text, ellipsis |-> FALSE]

\* the sources entry built from a retrieved chunk (manual retrieval);
\* chunk.get('relevance_score', 0.0)
chunk_source(chunk) ==
    [file |-> chunk.source_file, section |-> chunk.section,
     text |-> truncate(chunk.text),
     relevance_score |-> IF "relevance_score" \in DOMAIN chunk
                         THEN chunk.relevance_score
                         ELSE [num |-> 0, den |-> 1]]

\* the sources list built from the retrieved chunks, one entry per chunk
RECURSIVE build_sources(_)
build_sources(retrieved_chunks) ==
    IF retrieved_chunks = <<>> THEN <<>>
    ELSE <<chunk_source(Head(retrieved_chunks))>> \o build_sources(Tail(retrieved_chunks))

\* the sources entry built from a retrieved Document (retrieval chain)
document_source(doc) ==
    [file |-> doc.metadata.source_file, section |-> doc.metadata.section,
     text |-> truncate(doc.page_content), relevance_score |-> [num |-> 1, den |-> 1]]

\* the early return carrying the apology of the too-short path instead
insufficient_wrong_message(query) ==
    [answer |-> ApologyAnswer, sources |-> <<>>, total_sources |-> 0, query |-> query]

\* the early returns of answer_question: nothing to answer from
insufficient(query) ==
    [answer |-> NoInfoAnswer, sources |-> <<>>, total_sources |-> 0, query |-> query]

\* the try block of answer_question: the retrieval chain.  raised: an
\* exception left the block (the caller's except clause takes over)
retrieval_chain(vs, ms, hp, query, top_k, user_id, searchFails, llm) ==
    IF "get_retriever" \notin VectorStoreMethods
    THEN \* AttributeError at self.vector_store.get_retriever
         [raised |-> TRUE, memories |-> ms, heap |-> hp]
    ELSE LET got == IF UserGiven(user_id)
                    THEN get_memory(ms, hp, user_id[1])
                    ELSE [raised |-> FALSE, memories |-> ms, heap |-> hp, ref |-> 0]
             chat_history == IF UserGiven(user_id) /\ ~got.raised
                             THEN PySuffix(get_messages(got.heap[got.ref]), HistoryWindow)
                             ELSE <<>>
         IN  IF got.raised \/ searchFails \/ llm.raises
             THEN [raised |-> TRUE, memories |-> got.memories, heap |-> got.heap]
             ELSE LET hits == similarity_search_with_score(vs[1], query, top_k)
                      docs == [i \in 1..Len(hits) |-> hits[i][1]]
                      answer == llm.content
                      sources == [i \in 1..Len(docs) |-> document_source(docs[i])]
                      saved == IF UserGiven(user_id)
                               THEN save_exchange(got.heap, got.ref, query, answer)
                               ELSE got.heap
                  IN  [raised |-> FALSE,
                       result |-> [answer |-> answer, sources |-> sources,
                                   total_sources |-> Len(sources), query |-> query],
                       memories |-> got.memories, heap |-> saved,
                       request |-> Some([history |-> chat_history,
                                         prompt |-> [context |-> docs, query |-> query]])]

\* LangChainRAGService.answer_question.  path names the return statement
\* taken, retrieved the chunks of the manual search, request the messages
\* handed to the generation capability (None: it was not invoked)
answer_question(vs, ms, hp, query, top_k, user_id, searchFails, llm) ==
    IF vs = None
    THEN [raised |-> FALSE, result |-> insufficient(query), path |-> "uninitialised",
          memories |-> ms, heap |-> hp, retrieved |-> <<>>, request |-> None]
    ELSE LET chain == retrieval_chain(vs, ms, hp, query, top_k, user_id, searchFails, llm)
         IN  IF ~chain.raised
             THEN [raised |-> FALSE, result |-> chain.result, path |-> "chain",
                   memories |-> chain.memories, heap |-> chain.heap,
                   retrieved |-> <<>>, request |-> chain.request]
             ELSE \* except Exception: manual retrieval
                  LET found == search(vs, query, top_k, searchFails)
                      retrieved_chunks == found.chunks
                  IN  IF found.raised
                      THEN [raised |-> TRUE, path |-> "manual",
                            memories |-> chain.memories, heap |-> chain.heap,
                            retrieved |-> <<>>, request |-> None]
                      ELSE IF Len(retrieved_chunks) = 0
                      THEN [raised |-> FALSE, result |-> insufficient(query),
                            path |-> "no_chunks",
                            memories |-> chain.memories, heap |-> chain.heap,
                            retrieved |-> <<>>, request |-> None]
                      ELSE LET gen == generate_answer(chain.memories, chain.heap, query,
                                                      retrieved_chunks, user_id, llm)
                               sources == build_sources(retrieved_chunks)
                           IN  IF gen.raised
                               THEN [raised |-> TRUE, path |-> "manual",
                                     memories |-> gen.memories, heap |-> gen.heap,
                                     retrieved |-> retrieved_chunks,
                                     request |-> gen.request]
                               ELSE [raised |-> FALSE,
                                     result |-> [answer |-> gen.answer,
                                                 sources |-> sources,
                                                 total_sources |-> Len(sources),
                                                 query |-> query],
                                     path |-> "manual",
                                     memories |-> gen.memories, heap |-> gen.heap,
                                     retrieved |-> retrieved_chunks,
                                     request |-> gen.request]

-----------------------------------------------------------------------------
(* document_parser.py *)

\* characters: a word character is a positive number (its identity), the
\* others are whitespace and one character outside the kept set
SPACE == 0
NEWLINE == -1
HASH == -2

\* \s
IsSpace(c) == c \in {SPACE, NEWLINE}

\* [\w\s\.\,\!\?\;\:\-\(\)\[\]]
IsKept(c) == c > 0 \/ IsSpace(c)

Indices(s) == [i \in 1..Len(s) |-> i]

\* re.sub(r'\s+', ' ', text): every run of whitespace becomes one space
collapse_whitespace(s) ==
    LET firsts == SelectSeq(Indices(s),
                      LAMBDA i : ~IsSpace(s[i]) \/ i = 1 \/ ~IsSpace(s[i - 1]))
    IN  [k \in 1..Len(firsts) |->
            IF IsSpace(s[firsts[k]]) THEN SPACE ELSE s[firsts[k]]]

\* re.sub(r'[^\w\s...]', '', text): the other characters are deleted
remove_special(s) == SelectSeq(s, IsKept)

\* text.replace('\n', ' ').replace('\r', ' ')
replace_line_breaks(s) == [i \in 1..Len(s) |-> IF s[i] = NEWLINE THEN SPACE ELSE s[i]]

\* str.strip() on a character sequence
str_strip(s) ==
    LET inner == {i \in 1..Len(s) : ~IsSpace(s[i])}
    IN  IF inner = {} THEN <<>>
        ELSE SubSeq(s, CHOOSE i \in inner : \A j \in inner : i <= j,
                       CHOOSE i \in inner : \A j \in inner : i >= j)

\* DocumentParser._clean_text
_clean_text(text) ==
    str_strip(replace_line_breaks(remove_special(collapse_whitespace(text))))

\* str.split(): the maximal runs of non-whitespace characters
split(s) ==
    LET starts == SelectSeq(Indices(s),
                      LAMBDA i : ~IsSpace(s[i]) /\ (i = 1 \/ IsSpace(s[i - 1])))
        ends == SelectSeq(Indices(s),
                      LAMBDA i : ~IsSpace(s[i]) /\ (i = Len(s) \/ IsSpace(s[i + 1])))
    IN  [k \in 1..Len(starts) |-> SubSeq(s, starts[k], ends[k])]

\* ' '.join(words[lo..hi])
RECURSIVE join_range(_, _, _)
join_range(words, lo, hi) ==
    IF lo > hi THEN <<>>
    ELSE IF lo = hi THEN words[lo]
    ELSE LET mid == (lo + hi) \div 2
         IN  join_range(words, lo, mid) \o <<SPACE>> \o join_range(words, mid + 1, hi)

join(words) == join_range(words, 1, Len(words))

Max(a, b) == IF a >= b THEN a ELSE b

\* s[start:end] as Python evaluates it: a negative bound counts from the end
py_slice(s, start, end) ==
    LET lo == IF start < 0 THEN Max(Len(s) + start, 0) ELSE Min(start, Len(s))
        hi == IF end < 0 THEN Max(Len(s) + end, 0) ELSE Min(end, Len(s))
    IN  IF lo >= hi THEN <<>> ELSE SubSeq(s, lo + 1, hi)

\* os.path.basename on a path given by its components
basename(path) == path[Len(path)]

\* DocumentParser.__init__
DocumentParser == [chunk_size |-> 500, chunk_overlap |-> 50]

\* the chunk dict _create_overlapping_chunks appends
chunk_dict(text, section, source_file, chunk_id, words) ==
    [text |-> text, section |-> section, source_file |-> basename(source_file),
     chunk_id |-> <<section, chunk_id>>, word_count |-> Len(words)]

\* the test with < in place of <=: a text of exactly chunk_size words is windowed
fits_strictly(self, words) == Len(words) < self.chunk_size

\* len(words) <= self.chunk_size
fits(self, words) == Len(words) <= self.chunk_size

\* one pass of the while loop of _create_overlapping_chunks on its locals
loop_body(self, p) ==
    LET end == Min(p.start + self.chunk_size, Len(p.words))
        chunk_words == py_slice(p.words, p.start, end)
        chunk_text == join(chunk_words)
    IN  [p EXCEPT !.chunks = Append(@, chunk_dict(chunk_text, p.section, p.source_file,
                                                  p.chunk_id, chunk_words)),
                  !.start = @ + (self.chunk_size - self.chunk_overlap),
                  !.chunk_id = @ + 1]

\* a parser that is not parsing: no page, no locals
ParserIdle ==
    [self |-> DocumentParser, pc |-> "idle", text |-> <<>>, section |-> "",
     source_file |-> <<>>, words |-> <<>>, start |-> 0, chunk_id |-> 0, chunks |-> <<>>]


-----------------------------------------------------------------------------
(* add_chunks statement by statement, for calls made from several threads *)

\* no add_chunks call was made
NoThreads == <<>>

\* LangChainVectorStore.add_chunks up to its test of self.vectorstore: the
\* locals of the call, done when it returns early
langchain_call(chunks) ==
    LET documents == IF chunks = <<>> THEN <<>> ELSE build_documents(chunks)
    IN  [kind |-> "langchain", chunks |-> chunks, documents |-> documents,
         pc |-> IF documents = <<>> THEN "done" ELSE "test", raised |-> FALSE]

\* EmbeddingManager.add_chunks up to its test of self.index
em_call(chunks) ==
    [kind |-> "em", chunks |-> chunks, documents |-> encode(chunks),
     pc |-> "test", raised |-> FALSE]

\* if self.vectorstore is None
lc_test(vs, call) == [call EXCEPT !.pc = IF vs = None THEN "create" ELSE "append"]

\* self.vectorstore = FAISS.from_documents(documents, self.embeddings)
lc_create(vs, call) == Some(call.documents)

\* self.vectorstore.add_documents(documents); on no store: AttributeError
lc_append(vs, call) == IF vs = None THEN vs ELSE Some(vs[1] \o call.documents)

\* if self.index is None
em_test(self, call) == [call EXCEPT !.pc = IF self.index = None THEN "create" ELSE "add"]

\* self.index = faiss.IndexFlatL2(self.dimension)
em_create(self) == [self EXCEPT !.index = Some(<<>>)]

\* self.index.add(embeddings): an empty batch is rejected
em_add(self, call) ==
    IF call.chunks = <<>> THEN self
    ELSE [self EXCEPT !.index = Some(self.index[1] \o call.documents)]

\* self.chunks.extend(chunks)
em_extend(self, call) == [self EXCEPT !.chunks = @ \o call.chunks]

-----------------------------------------------------------------------------
(* search statement by statement, for calls made while add_chunks runs *)

\* the locals of a search call on entry: kind names the class, during tells
\* whether a step of the call was taken while add_chunks was running
search_call(kind, query, top_k) ==
    [kind |-> kind, query |-> query, top_k |-> top_k, pc |-> "test",
     hits |-> <<>>, next |-> 1, results |-> <<>>, raised |-> FALSE, during |-> FALSE]

\* if self.vectorstore is None: return []
lc_search_test(vs, call) == [call EXCEPT !.pc = IF vs = None THEN "done" ELSE "query"]

\* results = self.vectorstore.similarity_search_with_score(query, k=top_k)
\* and the loop over the results, which reads nothing shared
lc_search_query(vs, call) ==
    [call EXCEPT !.results = result_chunks(
                                similarity_search_with_score(vs[1], call.query, call.top_k)),
                 !.pc = "done"]

\* if self.index is None or len(self.chunks) == 0: return []
em_search_test(self, call) ==
    [call EXCEPT !.pc = IF self.index = None \/ Len(self.chunks) = 0
                        THEN "done" ELSE "search"]

\* D, I = self.index.search(query_emb, top_k)
em_search_index(self, call) ==
    LET hits == index_search(self.index[1], embed_query(call.query), call.top_k)
    IN  [call EXCEPT !.hits = hits, !.pc = IF hits = <<>> THEN "done" ELSE "loop"]

\* one pass of the loop over zip(I[0], D[0])
em_search_loop(self, call) ==
    [call EXCEPT !.results = @ \o hits_to_results(self.chunks, <<call.hits[call.next]>>),
                 !.next = @ + 1,
                 !.pc = IF call.next = Len(call.hits) THEN "done" ELSE "loop"]

-----------------------------------------------------------------------------
(* the memory part of generate_answer and add_message statement by
   statement, for requests served by several threads *)

\* generate_answer(query, chunks, user_id) on entry to its memory part: the
\* messages it will save, no memory object yet (target 0)
request_call(user_id, query, answer) ==
    [kind |-> "request", user_id |-> user_id, pc |-> "get_test", target |-> 0,
     pending |-> << <<"user", query>>, <<"assistant", answer>> >>, tmp |-> <<>>,
     raised |-> FALSE]

\* add_message(role, content) called on a ConversationMemory a caller holds
log_call(message) ==
    [kind |-> "log_add", user_id |-> "", pc |-> "append", target |-> 0,
     pending |-> <<message>>, tmp |-> <<>>, raised |-> FALSE]

\* if user_id not in self.memories
gm_test(ms, call) ==
    [call EXCEPT !.pc = IF call.user_id \notin DOMAIN ms THEN "get_create" ELSE "get_return"]

\* self.memories[user_id] = ConversationMemory(user_id): the manager after it
gm_create(ms, hp, call) ==
    [memories |-> (call.user_id :> (Len(hp) + 1)) @@ ms,
     heap |-> Append(hp, ConversationMemory(call.user_id, DefaultMaxMessages))]

\* return self.memories[user_id]
gm_return(ms, call) == [call EXCEPT !.target = ms[call.user_id], !.pc = "invoke"]

\* self.messages.append((role, content))
msg_append(mem, call) == [mem EXCEPT !.messages = Append(@, Head(call.pending))]

\* the call once the add_message in progress has returned
msg_returned(call) ==
    [call EXCEPT !.pending = Tail(@), !.tmp = <<>>,
                 !.pc = IF Tail(call.pending) = <<>> THEN "done" ELSE "append"]

\* if len(self.messages) > self.max_messages
msg_test(mem, call) ==
    IF Len(mem.messages) > mem.max_messages
    THEN [call EXCEPT !.pc = "slice"]
    ELSE msg_returned(call)

\* the right-hand side self.messages[-self.max_messages:], a new list
msg_slice(mem, call) ==
    [call EXCEPT !.tmp = PySuffix(mem.messages, mem.max_messages), !.pc = "assign"]

\* self.messages = <the new list>
msg_assign(mem, call) == [mem EXCEPT !.messages = call.tmp]

-----------------------------------------------------------------------------
(* langchain_vector_store.py: persistence *)

\* persist_directory does not exist
NoDirectory == [exists |-> FALSE, readable |-> FALSE, docs |-> <<>>]

\* LangChainVectorStore._load_vectorstore, called by __init__ after
\* self.vectorstore = None; loadFails: FAISS.load_local raises although the
\* directory is intact.  raised: an exception left the call
_load_vectorstore(dsk, loadFails) ==
    IF dsk.exists
    THEN IF loadFails \/ ~dsk.readable
         THEN \* except Exception
              [raised |-> FALSE, vectorstore |-> None]
         ELSE [raised |-> FALSE, vectorstore |-> Some(dsk.docs)]
    ELSE [raised |-> FALSE, vectorstore |-> None]

\* _save_vectorstore without its try block
_save_vectorstore_no_except(vs, dsk, saveFails, torn) ==
    IF vs = None THEN [raised |-> FALSE, disk |-> dsk]
    ELSE IF saveFails
    THEN [raised |-> TRUE,
          disk |-> IF torn THEN [exists |-> TRUE, readable |-> FALSE, docs |-> <<>>]
                   ELSE dsk]
    ELSE [raised |-> FALSE, disk |-> [exists |-> TRUE, readable |-> TRUE, docs |-> vs[1]]]

\* LangChainVectorStore._save_vectorstore; saveFails: makedirs or save_local
\* raises, torn: it does so after part of the files were written
_save_vectorstore(vs, dsk, saveFails, torn) ==
    IF vs = None THEN [raised |-> FALSE, disk |-> dsk]
    ELSE IF saveFails
    THEN \* except Exception
         [raised |-> FALSE,
          disk |-> IF torn THEN [exists |-> TRUE, readable |-> FALSE, docs |-> <<>>]
                   ELSE dsk]
    ELSE [raised |-> FALSE, disk |-> [exists |-> TRUE, readable |-> TRUE, docs |-> vs[1]]]

\* add_chunks that puts the first Document into the store before the
\* embedding of the batch is computed
add_chunks_saving_uncommitted(vs, dsk, chunks, embedFails, saveFails, torn) ==
    LET documents == IF chunks = <<>> THEN <<>> ELSE build_documents(chunks)
    IN  IF documents = <<>>
        THEN [raised |-> FALSE, vectorstore |-> vs, disk |-> dsk]
        ELSE IF embedFails
        THEN [raised |-> TRUE,
              vectorstore |-> Some((IF vs = None THEN <<>> ELSE vs[1]) \o <<documents[1]>>),
              disk |-> dsk]
        ELSE LET saved == _save_vectorstore(add_chunks(vs, chunks), dsk, saveFails, torn)
             IN  [raised |-> saved.raised, vectorstore |-> add_chunks(vs, chunks),
                  disk |-> saved.disk]

\* LangChainVectorStore.add_chunks with its collaborators: embedFails: the
\* embedding raises inside FAISS.from_documents or add_documents, which
\* embed the texts before they touch the store
add_chunks_saving(vs, dsk, chunks, embedFails, saveFails, torn) ==
    LET documents == IF chunks = <<>> THEN <<>> ELSE build_documents(chunks)
    IN  IF documents = <<>>
        THEN [raised |-> FALSE, vectorstore |-> vs, disk |-> dsk]
        ELSE IF embedFails
        THEN [raised |-> TRUE, vectorstore |-> vs, disk |-> dsk]
        ELSE LET saved == _save_vectorstore(add_chunks(vs, chunks), dsk, saveFails, torn)
             IN  [raised |-> saved.raised, vectorstore |-> add_chunks(vs, chunks),
                  disk |-> saved.disk]

-----------------------------------------------------------------------------
(* api/main.py *)

\* the module was not imported yet: no global is bound
\* (a global is TRUE when it is bound to an object, FALSE when it is None;
\* store_constructs and api_key record what the environment provides)
NotStarted ==
    [started |-> FALSE, vector_store |-> FALSE, llm_tutor |-> FALSE,
     memory_manager |-> FALSE, rag_service |-> FALSE, quiz_generator |-> FALSE,
     store_constructs |-> FALSE, api_key |-> FALSE]

\* def __init__(self, vector_store, llm_tutor, memory_manager): the
\* parameters after self, none of them with a default
RAGServiceParams == <<"vector_store", "llm_tutor", "memory_manager">>

\* LangChainRAGService(vector_store, llm_tutor): the arguments of the call
\* in the startup sequence
RAGServiceArgs == <<"vector_store", "llm_tutor">>

\* a call of LangChainRAGService: TypeError unless every parameter is given
LangChainRAGService_init(args) == [raised |-> Len(args) /= Len(RAGServiceParams)]

\* LangChainTutor.__init__ and QuizGenerator.__init__: ValueError without
\* an API key in the settings or the environment
LangChainTutor_init(apiKey) == [raised |-> ~apiKey]

QuizGenerator_init(apiKey) == [raised |-> ~apiKey]

\* the module-level initialisation: the globals after it.  storeFails:
\* LangChainVectorStore() raises, apiKey: an OpenAI key is configured
startup(storeFails, apiKey) ==
    LET vector_store == ~storeFails
        tutor == LangChainTutor_init(apiKey)
        rag == IF vector_store THEN LangChainRAGService_init(RAGServiceArgs)
               ELSE [raised |-> FALSE]
        quiz == QuizGenerator_init(apiKey)
        \* the statements of the try block run in this order; the except
        \* clause resets the four globals
        raised == tutor.raised \/ rag.raised \/ quiz.raised
    IN  [started |-> TRUE, vector_store |-> vector_store,
         llm_tutor |-> ~raised, memory_manager |-> ~raised,
         rag_service |-> ~raised /\ vector_store, quiz_generator |-> ~raised,
         store_constructs |-> ~storeFails, api_key |-> apiKey]

\* raise HTTPException(status_code, detail)
HTTPException(status_code, detail) ==
    [raised |-> TRUE, http |-> TRUE, status_code |-> status_code, detail |-> detail]

\* the response FastAPI sends for an HTTPException that leaves a handler
Rejection(status_code, detail, inner) ==
    [status |-> status_code, detail |-> detail, inner |-> inner]

\* a handler's 'except Exception as e: raise HTTPException(500, str(e))'.
\* HTTPException is a subclass of Exception, so the clause also catches
\* the HTTPExceptions raised inside the try block; inner keeps the status
\* code of the exception that was caught (0: not an HTTPException)
except_Exception(e) ==
    Rejection(500, <<"str", IF e.http THEN e.detail ELSE "error">>,
              IF e.http THEN e.status_code ELSE 0)

\* 'response = rag_service.answer_question(...); return response' inside
\* the try block: r is what the call did
ask_question_return(r) ==
    IF r.raised
    THEN [e |-> [raised |-> TRUE, http |-> FALSE], called |-> TRUE,
          memories |-> r.memories, heap |-> r.heap]
    ELSE [e |-> [raised |-> FALSE], called |-> TRUE, response |-> r.result,
          memories |-> r.memories, heap |-> r.heap]

\* the body of ask_question's try block.  called: rag_service.answer_question
\* was called
ask_question_try(a, vs, ms, hp, query, top_k, user_id, searchFails, llm) ==
    IF ~Truthy(strip(query))
    THEN [e |-> HTTPException(400, "Query cannot be empty"), called |-> FALSE,
          memories |-> ms, heap |-> hp]
    ELSE IF top_k < 1 \/ top_k > 20
    THEN [e |-> HTTPException(400, "top_k must be between 1 and 20"),
          called |-> FALSE, memories |-> ms, heap |-> hp]
    ELSE IF ~a.rag_service
    THEN [e |-> HTTPException(503, "AI service is not available"),
          called |-> FALSE, memories |-> ms, heap |-> hp]
    ELSE ask_question_return(answer_question(vs, ms, hp, query, top_k, user_id,
                                             searchFails, llm))

\* the except clause of ask_question, or its normal return; t is what the
\* try block did
ask_question_except(t) ==
    [response |-> IF t.e.raised THEN except_Exception(t.e)
                  ELSE [status |-> 200, body |-> t.response],
     called |-> t.called, memories |-> t.memories, heap |-> t.heap]

\* POST /ask
ask_question(a, vs, ms, hp, query, top_k, user_id, searchFails, llm) ==
    ask_question_except(ask_question_try(a, vs, ms, hp, query, top_k, user_id,
                                         searchFails, llm))

\* the body of upload_document's try block; extension: the file name ends
\* in .pdf, .pptx or .ppt, chunks: what parse_document returns
upload_document_try(a, vs, dsk, extension, chunks, embedFails, saveFails, torn) ==
    IF ~extension
    THEN [e |-> HTTPException(400, "Unsupported file type"), vectorstore |-> vs,
          disk |-> dsk]
    ELSE IF chunks = <<>>
    THEN [e |-> HTTPException(400, "No content could be extracted from the document"),
          vectorstore |-> vs, disk |-> dsk]
    ELSE IF ~a.vector_store
    THEN [e |-> HTTPException(503, "Vector store service is not available"),
          vectorstore |-> vs, disk |-> dsk]
    ELSE LET added == add_chunks_saving(vs, dsk, chunks, embedFails, saveFails, torn)
         IN  IF added.raised
             THEN [e |-> [raised |-> TRUE, http |-> FALSE],
                   vectorstore |-> added.vectorstore, disk |-> added.disk]
             ELSE [e |-> [raised |-> FALSE],
                   response |-> [chunks_processed |-> Len(chunks),
                                 total_documents |-> count(added.vectorstore)],
                   vectorstore |-> added.vectorstore, disk |-> added.disk]

\* POST /upload
upload_document(a, vs, dsk, extension, chunks, embedFails, saveFails, torn) ==
    LET t == upload_document_try(a, vs, dsk, extension, chunks, embedFails, saveFails, torn)
    IN  [response |-> IF t.e.raised THEN except_Exception(t.e)
                      ELSE [status |-> 200, body |-> t.response],
         vectorstore |-> t.vectorstore, disk |-> t.disk]

\* GET /documents
get_document_info(a, vs) ==
    [status |-> 200,
     body |-> [total_documents |-> IF a.vector_store THEN count(vs) ELSE 0,
               embedding_service_available |-> a.vector_store]]

-----------------------------------------------------------------------------
(* Inputs *)

Queries == {Str("q1", 12), Str("q2", 30)}
TopKs == {1, 3, 5}

\* the form fields of POST /ask: a question, the empty string and a string
\* of three blanks; top_k below, inside and above the accepted range
FormQueries == {Str("q1", 12), Str("", 0), [Str("", 0) EXCEPT !.pad = 3]}
FormTopKs == {-1, 0, 3, 21}
SearchTopKs == {0} \cup TopKs
UserIds == {None, Some(""), Some("u1"), Some("u2")}
Users == {"u1", "u2"}

LLMOutcomes ==
    {[raises |-> TRUE],
     [raises |-> FALSE, content |-> [tag |-> "g_short", len |-> 5, pad |-> 2, parts |-> <<>>]],
     [raises |-> FALSE, content |-> [tag |-> "g_exact", len |-> 20, pad |-> 0, parts |-> <<>>]],
     [raises |-> FALSE, content |-> [tag |-> "g_long", len |-> 60, pad |-> 1, parts |-> <<>>]]}

Chunk(tag, key, n, section) ==
    [text |-> Text(tag, key, n), source_file |-> "doc.pdf", section |-> section,
     chunk_id |-> <<section, 0>>]

cLong == Chunk("t1", 0, 1500, "Page 1")
cMid == Chunk("t2", 3, 201, "Page 2")
cEmpty == Chunk("t3", 5, 0, "Page 3")
cShort == Chunk("t4", 1, 200, "Page 4")

Batches == {<<>>, <<cEmpty>>, <<cShort>>, <<cLong, cMid>>, <<cMid, cEmpty, cLong>>}

LogMessages == {<<"user", Str("q1", 12)>>, <<"assistant", Str("g_long", 60)>>}

\* page texts: every string of at most MaxLen characters over a word
\* character, the two whitespace characters and a special character, and
\* prose of n distinct one-letter words separated by single spaces
Alphabet == {1, SPACE, NEWLINE, HASH}
ShortTexts == UNION {[1..n -> Alphabet] : n \in 0..MaxLen}
Prose(n) == [i \in 1..(2 * n - 1) |-> IF i % 2 = 1 THEN (i + 1) \div 2 ELSE SPACE]
ProseLengths == {499, 500, 501, 900, 901, 951}
PageTexts == ShortTexts \cup {Prose(n) : n \in ProseLengths}

\* the batches of the add_chunks calls made from threads
ThreadBatches == {<<>>, <<cShort>>, <<cLong, cMid>>}

\* the top_k of the searches made from threads
ThreadTopKs == {1, 3}

\* values of (chunk_size, chunk_overlap): those of __init__, and overlaps
\* assigned to the attribute afterwards
Tunables == {<<500, 50>>, <<500, 500>>, <<500, 600>>}

\* a manager after the exchanges of the given users, in order: each is a
\* question answered from one chunk by a generation call that succeeded
RECURSIVE Conversations(_)
Conversations(users) ==
    IF users = <<>> THEN [memories |-> new_memories, heap |-> <<>>]
    ELSE LET before == Conversations(Tail(users))
             g == generate_answer(before.memories, before.heap, Str("q2", 30), <<cShort>>,
                                  Some(Head(users)),
                                  [raises |-> FALSE, content |-> Str("g_long", 60)])
         IN  [memories |-> g.memories, heap |-> g.heap]

\* the users who talked to the service before, latest first
EarlierUsers == {<<>>, <<"u2">>, <<"u1">>, <<"u2", "u1">>, <<"u2", "u2">>}

\* the uploads the service took before
EarlierUploads == {<<>>, <<cShort>>, <<cLong, cMid>>}

-----------------------------------------------------------------------------
(* The service: uploads and questions *)

Idle == [op |-> "none"]

Init ==
    /\ vectorstore = None
    /\ memories = new_memories
    /\ heap = <<>>
    /\ handle = None
    /\ last = Idle
    /\ nAdds = 0
    /\ nAsks = 0
    /\ nMem = 0
    /\ passed = 0
    /\ log = ConversationMemory("u1", DefaultMaxMessages)
    /\ hist = <<>>
    /\ em = EmbeddingManager
    /\ parser = ParserIdle
    /\ threads = NoThreads
    /\ disk = NoDirectory
    /\ app = NotStarted

AddChunks ==
    /\ nAdds < MaxAdds
    /\ \E chunks \in Batches :
        /\ vectorstore' = add_chunks(vectorstore, chunks)
        /\ passed' = passed + Len(chunks)
        /\ last' = [op |-> "add_chunks", chunks |-> chunks,
                    count_before |-> count(vectorstore)]
    /\ nAdds' = nAdds + 1
    /\ UNCHANGED <<memories, heap, handle, nAsks, nMem, log, hist, em, parser, threads, disk, app>>

AnswerQuestion ==
    /\ nAsks < MaxAsks
    /\ \E query \in Queries, top_k \in TopKs, user_id \in UserIds,
          searchFails \in BOOLEAN, llm \in LLMOutcomes :
        \E r \in {answer_question(vectorstore, memories, heap, query, top_k,
                                 user_id, searchFails, llm)} :
            /\ memories' = r.memories
            /\ heap' = r.heap
            /\ last' = [op |-> "answer_question", query |-> query, top_k |-> top_k,
                        user_id |-> user_id, raised |-> r.raised, path |-> r.path,
                        result |-> IF r.raised THEN None ELSE Some(r.result),
                        retrieved |-> r.retrieved, request |-> r.request,
                        llm_raised |-> r.request /= None /\ llm.raises,
                        generated |-> IF r.request /= None /\ ~llm.raises
                                      THEN Some(llm.content) ELSE None,
                        mem_before |-> IF UserGiven(user_id) /\ user_id[1] \in DOMAIN memories
                                       THEN heap[memories[user_id[1]]].messages
                                       ELSE <<>>]
    /\ nAsks' = nAsks + 1
    /\ UNCHANGED <<vectorstore, handle, nAdds, nMem, passed, log, hist, em, parser, threads, disk, app>>

Next == AddChunks \/ AnswerQuestion

Spec == Init /\ [][Next]_vars

-----------------------------------------------------------------------------
(* Questions put to a service that has taken an upload and held
   conversations before *)

InitFrame ==
    /\ \E chunks \in EarlierUploads :
        /\ vectorstore = add_chunks(None, chunks)
        /\ nAdds = IF chunks = <<>> THEN 0 ELSE 1
        /\ passed = Len(chunks)
    /\ \E users \in EarlierUsers :
        /\ memories = Conversations(users).memories
        /\ heap = Conversations(users).heap
    /\ handle = None
    /\ last = Idle
    /\ nAsks = 0
    /\ nMem = 0
    /\ log = ConversationMemory("u1", DefaultMaxMessages)
    /\ hist = <<>>
    /\ em = EmbeddingManager
    /\ parser = ParserIdle
    /\ threads = NoThreads
    /\ disk = NoDirectory
    /\ app = NotStarted

NextFrame == AnswerQuestion

SpecFrame == InitFrame /\ [][NextFrame]_vars

-----------------------------------------------------------------------------
(* The two vector indexes on their own: uploads and searches *)

\* vector_store.search(query, top_k); hits: what the index reported.  A
\* top_k of 0 yields no result whether the index rejects it or answers it
Search ==
    /\ \E query \in Queries, top_k \in SearchTopKs, fails \in BOOLEAN :
        \E s \in {search(vectorstore, query, top_k, fails)} :
            last' = [op |-> "search", query |-> query, top_k |-> top_k,
                     fails |-> fails, raised |-> s.raised, results |-> s.chunks,
                     hits |-> IF vectorstore = None \/ fails THEN <<>>
                              ELSE index_search(document_vectors(vectorstore[1]),
                                                embed_query(query), top_k)]
    /\ UNCHANGED <<vectorstore, memories, heap, handle, nAdds, nAsks, nMem, passed,
                   log, hist, em, parser, threads, disk, app>>

EmAddChunks ==
    /\ nAdds < MaxAdds
    /\ \E chunks \in Batches, fails \in BOOLEAN :
        \E a \in {EmbeddingManager_add_chunks(em, chunks, fails)} :
            /\ em' = [index |-> a.index, chunks |-> a.chunks]
            /\ last' = [op |-> "em_add_chunks", chunks |-> chunks, fails |-> fails,
                        raised |-> a.raised, before |-> em]
    /\ nAdds' = nAdds + 1
    /\ UNCHANGED <<vectorstore, memories, heap, handle, nAsks, nMem, passed,
                   log, hist, parser, threads, disk, app>>

EmSearch ==
    /\ \E query \in Queries, fails \in BOOLEAN,
          top_k \in IF EmbeddingManager_count(em) = 0 THEN SearchTopKs ELSE TopKs :
        \E s \in {EmbeddingManager_search(em, query, top_k, fails)} :
            last' = [op |-> "em_search", query |-> query, top_k |-> top_k,
                     fails |-> fails, raised |-> s.raised, results |-> s.results,
                     hits |-> IF EmbeddingManager_count(em) = 0 \/ fails THEN <<>>
                              ELSE index_search(em.index[1], embed_query(query), top_k)]
    /\ UNCHANGED <<vectorstore, memories, heap, handle, nAdds, nAsks, nMem, passed,
                   log, hist, em, parser, threads, disk, app>>

\* the sources loop of answer_question on the results of the last search
BuildSources ==
    /\ last.op \in {"search", "em_search"}
    /\ ~last.raised
    /\ last.results /= <<>>
    /\ last' = [op |-> "sources", retrieved_chunks |-> last.results,
                sources |-> build_sources(last.results)]
    /\ UNCHANGED <<vectorstore, memories, heap, handle, nAdds, nAsks, nMem, passed,
                   log, hist, em, parser, threads, disk, app>>

NextSearch == AddChunks \/ Search \/ EmAddChunks \/ EmSearch \/ BuildSources

SpecSearch == Init /\ [][NextSearch]_vars

-----------------------------------------------------------------------------
(* The vector indexes with failing collaborators: the embedding, the save
   after an upload and the load when the process starts again *)

\* vector_store.add_chunks(chunks) with an embedding or a save that may fail
StoreAdd ==
    /\ nAdds < MaxAdds
    /\ \E chunks \in Batches, embedFails \in BOOLEAN, saveFails \in BOOLEAN, torn \in BOOLEAN :
        \E a \in {add_chunks_saving(vectorstore, disk, chunks, embedFails, saveFails, torn)} :
            /\ vectorstore' = a.vectorstore
            /\ disk' = a.disk
            /\ last' = [op |-> "store_add", chunks |-> chunks, embedFails |-> embedFails,
                        saveFails |-> saveFails, raised |-> a.raised,
                        before |-> vectorstore]
        /\ passed' = passed + Len(chunks)
    /\ nAdds' = nAdds + 1
    /\ UNCHANGED <<memories, heap, handle, nAsks, nMem, log, hist, em, parser, threads, app>>

\* the process starts again: LangChainVectorStore() over what the directory holds
Construct ==
    /\ last.op /= "construct"
    /\ \E loadFails \in BOOLEAN :
        \E l \in {_load_vectorstore(disk, loadFails)} :
            /\ vectorstore' = l.vectorstore
            /\ last' = [op |-> "construct", raised |-> l.raised,
                        load_failed |-> disk.exists /\ (loadFails \/ ~disk.readable)]
    /\ UNCHANGED <<memories, heap, handle, nAdds, nAsks, nMem, passed, log, hist, em,
                   parser, threads, disk, app>>

NextStore == StoreAdd \/ EmAddChunks \/ Construct

SpecStore == Init /\ [][NextStore]_vars

-----------------------------------------------------------------------------
(* The HTTP application: the startup sequence, then requests one at a time *)

\* import of api/main.py
Startup ==
    /\ ~app.started
    /\ \E storeFails \in BOOLEAN, apiKey \in BOOLEAN, loadFails \in BOOLEAN :
        /\ app' = startup(storeFails, apiKey)
        /\ vectorstore' = IF storeFails THEN None
                          ELSE _load_vectorstore(disk, loadFails).vectorstore
        /\ last' = [op |-> "startup"]
    /\ UNCHANGED <<memories, heap, handle, nAdds, nAsks, nMem, passed, log, hist, em,
                   parser, threads, disk>>

AskQuestion ==
    /\ app.started
    /\ nAsks < MaxAsks
    /\ \E query \in FormQueries, top_k \in FormTopKs, user_id \in UserIds,
          searchFails \in BOOLEAN, llm \in LLMOutcomes :
        \E r \in {ask_question(app, vectorstore, memories, heap, query, top_k,
                               user_id, searchFails, llm)} :
            /\ memories' = r.memories
            /\ heap' = r.heap
            /\ last' = [op |-> "ask", query |-> query, top_k |-> top_k,
                        user_id |-> user_id, response |-> r.response,
                        called |-> r.called]
    /\ nAsks' = nAsks + 1
    /\ UNCHANGED <<vectorstore, handle, nAdds, nMem, passed, log, hist, em, parser,
                   threads, disk, app>>

UploadDocument ==
    /\ app.started
    /\ nAdds < MaxAdds
    /\ \E extension \in BOOLEAN, chunks \in Batches, embedFails \in BOOLEAN,
          saveFails \in BOOLEAN, torn \in BOOLEAN :
        \E r \in {upload_document(app, vectorstore, disk, extension, chunks,
                                  embedFails, saveFails, torn)} :
            /\ vectorstore' = r.vectorstore
            /\ disk' = r.disk
            /\ last' = [op |-> "upload", chunks |-> chunks, response |-> r.response]
    /\ nAdds' = nAdds + 1
    /\ UNCHANGED <<memories, heap, handle, nAsks, nMem, passed, log, hist, em, parser,
                   threads, app>>

GetDocumentInfo ==
    /\ app.started
    /\ last.op /= "documents"
    /\ last' = [op |-> "documents", response |-> get_document_info(app, vectorstore)]
    /\ UNCHANGED <<vectorstore, memories, heap, handle, nAdds, nAsks, nMem, passed, log,
                   hist, em, parser, threads, disk, app>>

NextApi == Startup \/ AskQuestion \/ UploadDocument \/ GetDocumentInfo

SpecApi == Init /\ [][NextApi]_vars

-----------------------------------------------------------------------------
(* The memory manager on its own: callers obtain, fill and clear logs *)

GetMemory ==
    /\ nMem < MaxMemOps
    /\ \E user_id \in Users :
        \E g \in {get_memory(memories, heap, user_id)} :
            /\ memories' = g.memories
            /\ heap' = g.heap
            /\ handle' = IF g.raised THEN None ELSE Some(g.ref)
            /\ last' = [op |-> "get_memory", user_id |-> user_id, raised |-> g.raised,
                        ref |-> g.ref, created |-> user_id \notin DOMAIN memories]
    /\ nMem' = nMem + 1
    /\ UNCHANGED <<vectorstore, nAdds, nAsks, passed, log, hist, em, parser, threads, disk, app>>

\* memory.add_message(role, content) through the object last obtained
HandleAddMessage ==
    /\ nMem < MaxMemOps
    /\ handle /= None
    /\ \E m \in LogMessages :
        /\ heap' = [heap EXCEPT ![handle[1]] = add_message(@, m[1], m[2])]
        /\ last' = [op |-> "add_message", ref |-> handle[1], message |-> m]
    /\ nMem' = nMem + 1
    /\ UNCHANGED <<vectorstore, memories, handle, nAdds, nAsks, passed, log, hist, em, parser, threads, disk, app>>

ClearMemory ==
    /\ nMem < MaxMemOps
    /\ \E user_id \in Users :
        \E c \in {clear_memory(memories, heap, user_id)} :
            /\ memories' = c.memories
            /\ heap' = c.heap
            /\ last' = [op |-> "clear_memory", user_id |-> user_id, raised |-> c.raised,
                        existed |-> user_id \in DOMAIN memories]
    /\ nMem' = nMem + 1
    /\ UNCHANGED <<vectorstore, handle, nAdds, nAsks, passed, log, hist, em, parser, threads, disk, app>>

NextMem == GetMemory \/ HandleAddMessage \/ ClearMemory

SpecMem == Init /\ [][NextMem]_vars

-----------------------------------------------------------------------------
(* One ConversationMemory constructed with an arbitrary bound *)

LogBounds == (1..MaxBound) \cup {DefaultMaxMessages}

InitLog ==
    /\ vectorstore = None
    /\ memories = new_memories
    /\ heap = <<>>
    /\ handle = None
    /\ last = Idle
    /\ nAdds = 0
    /\ nAsks = 0
    /\ nMem = 0
    /\ passed = 0
    /\ \E max_messages \in LogBounds : log = ConversationMemory("u1", max_messages)
    /\ hist = <<>>
    /\ em = EmbeddingManager
    /\ parser = ParserIdle
    /\ threads = NoThreads
    /\ disk = NoDirectory
    /\ app = NotStarted

LogAddMessage ==
    /\ Len(hist) < log.max_messages + Extra
    /\ \E m \in LogMessages :
        /\ log' = add_message(log, m[1], m[2])
        /\ hist' = Append(hist, m)
    /\ UNCHANGED <<vectorstore, memories, heap, handle, last, nAdds, nAsks, nMem, passed, em, parser, threads, disk, app>>

NextLog == LogAddMessage

SpecLog == InitLog /\ [][NextLog]_vars

-----------------------------------------------------------------------------
(* The document parser on its own: one page through cleaning and chunking *)

\* parser.chunk_size, parser.chunk_overlap = ...: the tunables are plain
\* attributes, nothing validates them
\* nothing was parsed or cleaned yet
Fresh == last.op \in {"none", "set_tunables"}

SetTunables ==
    /\ parser.pc = "idle"
    /\ Fresh
    /\ \E t \in Tunables :
        parser' = [parser EXCEPT !.self = [chunk_size |-> t[1], chunk_overlap |-> t[2]]]
    /\ last' = [op |-> "set_tunables"]
    /\ UNCHANGED <<vectorstore, memories, heap, handle, nAdds, nAsks, nMem, passed,
                   log, hist, em, threads, disk, app>>

\* _clean_text applied to a text, and again to its own output
CleanText ==
    /\ parser.pc = "idle"
    /\ Fresh
    /\ \E text \in ShortTexts :
        \E cleaned \in {_clean_text(text)} :
            last' = [op |-> "_clean_text", text |-> text, cleaned |-> cleaned,
                     recleaned |-> _clean_text(cleaned)]
    /\ UNCHANGED <<vectorstore, memories, heap, handle, nAdds, nAsks, nMem, passed,
                   log, hist, em, parser, threads, disk, app>>

\* the body of the page loop of parse_pdf up to the while loop of
\* _create_overlapping_chunks: a page without text gives no chunk, a text
\* that fits gives one, a longer one enters the loop
ParsePage ==
    /\ parser.pc = "idle"
    /\ Fresh
    /\ \E page \in PageTexts :
        /\ last' = [op |-> "parse_page", page |-> page]
        /\ IF page = <<>>
           THEN parser' = [parser EXCEPT !.pc = "done"]
           ELSE \E text \in {_clean_text(page)} :
                  \E words \in {split(text)} :
                      parser' =
                        IF fits(parser.self, words)
                        THEN [parser EXCEPT
                                !.pc = "done", !.text = text, !.section = "Page 1",
                                !.source_file = <<"uploads", "doc.pdf">>,
                                !.words = words,
                                !.chunks = <<chunk_dict(text, "Page 1",
                                                        <<"uploads", "doc.pdf">>, 0, words)>>]
                        ELSE [parser EXCEPT
                                !.pc = "loop", !.text = text, !.section = "Page 1",
                                !.source_file = <<"uploads", "doc.pdf">>,
                                !.words = words, !.start = 0, !.chunk_id = 0]
    /\ UNCHANGED <<vectorstore, memories, heap, handle, nAdds, nAsks, nMem, passed,
                   log, hist, em, threads, disk, app>>

\* one pass of the while loop; a loop that does not advance is followed for
\* MaxChunks passes
LoopStep ==
    /\ parser.pc = "loop"
    /\ parser.start < Len(parser.words)
    /\ parser.self.chunk_overlap < parser.self.chunk_size \/ Len(parser.chunks) < MaxChunks
    /\ parser' = loop_body(parser.self, parser)
    /\ UNCHANGED <<vectorstore, memories, heap, handle, last, nAdds, nAsks, nMem, passed,
                   log, hist, em, threads, disk, app>>

\* the loop condition fails: return chunks
LoopExit ==
    /\ parser.pc = "loop"
    /\ ~(parser.start < Len(parser.words))
    /\ parser' = [parser EXCEPT !.pc = "done"]
    /\ UNCHANGED <<vectorstore, memories, heap, handle, last, nAdds, nAsks, nMem, passed,
                   log, hist, em, threads, disk, app>>

NextParser == SetTunables \/ CleanText \/ ParsePage \/ LoopStep \/ LoopExit

SpecParser == Init /\ [][NextParser]_vars

\* the loop runs whenever it can
SpecParserFair == SpecParser /\ WF_vars(LoopStep) /\ WF_vars(LoopExit)

-----------------------------------------------------------------------------
(* Threads calling add_chunks on one LangChainVectorStore and one
   EmbeddingManager; neither class takes a lock, so a thread can be
   preempted between any two statements *)

Others == <<memories, heap, handle, last, nAdds, nAsks, nMem, passed, log, hist, parser,
           disk, app>>

\* a thread enters add_chunks and runs up to the test of the shared attribute
Call ==
    /\ Len(threads) < MaxCalls
    /\ \E chunks \in ThreadBatches :
        \/ threads' = Append(threads, langchain_call(chunks))
        \/ threads' = Append(threads, em_call(chunks))
    /\ UNCHANGED <<vectorstore, em>>
    /\ UNCHANGED Others

At(t, kind, pc) == threads[t].kind = kind /\ threads[t].pc = pc

LcTest ==
    /\ \E t \in 1..Len(threads) :
        /\ At(t, "langchain", "test")
        /\ threads' = [threads EXCEPT ![t] = lc_test(vectorstore, @)]
    /\ UNCHANGED <<vectorstore, em>>
    /\ UNCHANGED Others

LcCreate ==
    /\ \E t \in 1..Len(threads) :
        /\ At(t, "langchain", "create")
        /\ vectorstore' = lc_create(vectorstore, threads[t])
        /\ threads' = [threads EXCEPT ![t].pc = "save"]
    /\ UNCHANGED em
    /\ UNCHANGED Others

LcAppend ==
    /\ \E t \in 1..Len(threads) :
        /\ At(t, "langchain", "append")
        /\ vectorstore' = lc_append(vectorstore, threads[t])
        /\ threads' = [threads EXCEPT ![t].pc = "save"]
    /\ UNCHANGED em
    /\ UNCHANGED Others

\* self._save_vectorstore() and return
LcSave ==
    /\ \E t \in 1..Len(threads) :
        /\ At(t, "langchain", "save")
        /\ threads' = [threads EXCEPT ![t].pc = "done"]
    /\ UNCHANGED <<vectorstore, em>>
    /\ UNCHANGED Others

EmTest ==
    /\ \E t \in 1..Len(threads) :
        /\ At(t, "em", "test")
        /\ threads' = [threads EXCEPT ![t] = em_test(em, @)]
    /\ UNCHANGED <<vectorstore, em>>
    /\ UNCHANGED Others

EmCreate ==
    /\ \E t \in 1..Len(threads) :
        /\ At(t, "em", "create")
        /\ em' = em_create(em)
        /\ threads' = [threads EXCEPT ![t].pc = "add"]
    /\ UNCHANGED vectorstore
    /\ UNCHANGED Others

\* index.add: the call ends here when the batch is rejected
EmAdd ==
    /\ \E t \in 1..Len(threads) :
        /\ At(t, "em", "add")
        /\ em' = em_add(em, threads[t])
        /\ threads' = [threads EXCEPT
                         ![t].pc = IF threads[t].chunks = <<>> THEN "done" ELSE "extend",
                         ![t].raised = (threads[t].chunks = <<>>)]
    /\ UNCHANGED vectorstore
    /\ UNCHANGED Others

EmExtend ==
    /\ \E t \in 1..Len(threads) :
        /\ At(t, "em", "extend")
        /\ em' = em_extend(em, threads[t])
        /\ threads' = [threads EXCEPT ![t].pc = "done"]
    /\ UNCHANGED vectorstore
    /\ UNCHANGED Others

NextThreads ==
    \/ Call
    \/ LcTest \/ LcCreate \/ LcAppend \/ LcSave
    \/ EmTest \/ EmCreate \/ EmAdd \/ EmExtend

SpecThreads == Init /\ [][NextThreads]_vars

-----------------------------------------------------------------------------
(* Threads calling search while one thread at a time calls add_chunks *)

\* the calls of add_chunks made so far have returned
AddsReturned ==
    \A t \in 1..Len(threads) :
        threads[t].kind \in {"langchain", "em"} => threads[t].pc = "done"

\* a search call after one more step
Stepped(call) == [call EXCEPT !.during = @ \/ ~AddsReturned]

\* a thread enters add_chunks while no other thread is in it
CallAlone == AddsReturned /\ Call

\* a thread enters search
SearchCall ==
    /\ Len(threads) < MaxCalls
    /\ \E kind \in {"lc_search", "em_search"}, query \in Queries, top_k \in ThreadTopKs :
        threads' = Append(threads, search_call(kind, query, top_k))
    /\ UNCHANGED <<vectorstore, em>>
    /\ UNCHANGED Others

LcSearchTest ==
    /\ \E t \in 1..Len(threads) :
        /\ At(t, "lc_search", "test")
        /\ threads' = [threads EXCEPT ![t] = Stepped(lc_search_test(vectorstore, @))]
    /\ UNCHANGED <<vectorstore, em>>
    /\ UNCHANGED Others

LcSearchQuery ==
    /\ \E t \in 1..Len(threads) :
        /\ At(t, "lc_search", "query")
        /\ threads' = [threads EXCEPT ![t] = Stepped(lc_search_query(vectorstore, @))]
    /\ UNCHANGED <<vectorstore, em>>
    /\ UNCHANGED Others

EmSearchTest ==
    /\ \E t \in 1..Len(threads) :
        /\ At(t, "em_search", "test")
        /\ threads' = [threads EXCEPT ![t] = Stepped(em_search_test(em, @))]
    /\ UNCHANGED <<vectorstore, em>>
    /\ UNCHANGED Others

EmSearchIndex ==
    /\ \E t \in 1..Len(threads) :
        /\ At(t, "em_search", "search")
        /\ threads' = [threads EXCEPT ![t] = Stepped(em_search_index(em, @))]
    /\ UNCHANGED <<vectorstore, em>>
    /\ UNCHANGED Others

EmSearchLoop ==
    /\ \E t \in 1..Len(threads) :
        /\ At(t, "em_search", "loop")
        /\ threads' = [threads EXCEPT ![t] = Stepped(em_search_loop(em, @))]
    /\ UNCHANGED <<vectorstore, em>>
    /\ UNCHANGED Others

NextSearchRace ==
    \/ CallAlone \/ SearchCall
    \/ LcTest \/ LcCreate \/ LcAppend \/ LcSave
    \/ EmTest \/ EmCreate \/ EmAdd \/ EmExtend
    \/ LcSearchTest \/ LcSearchQuery
    \/ EmSearchTest \/ EmSearchIndex \/ EmSearchLoop

SpecSearchRace == Init /\ [][NextSearchRace]_vars

-----------------------------------------------------------------------------
(* Threads serving requests of users on one ConversationMemoryManager, and
   threads calling add_message on one ConversationMemory; neither class
   takes a lock *)

MemOthers == <<vectorstore, handle, last, nAdds, nAsks, nMem, passed, em, parser, disk, app>>

\* a thread enters the memory part of generate_answer, or add_message of log
MemCall ==
    /\ Len(threads) < MaxCalls
    /\ \/ \E user_id \in Users :
            threads' = Append(threads,
                              request_call(user_id, Str("q1", 12), Str("g_long", 60)))
       \/ \E m \in LogMessages : threads' = Append(threads, log_call(m))
    /\ UNCHANGED <<memories, heap, log, hist>>
    /\ UNCHANGED MemOthers

GmTest ==
    /\ \E t \in 1..Len(threads) :
        /\ At(t, "request", "get_test")
        /\ threads' = [threads EXCEPT ![t] = gm_test(memories, @)]
    /\ UNCHANGED <<memories, heap, log, hist>>
    /\ UNCHANGED MemOthers

GmCreate ==
    /\ \E t \in 1..Len(threads) :
        /\ At(t, "request", "get_create")
        /\ \E g \in {gm_create(memories, heap, threads[t])} :
              memories' = g.memories /\ heap' = g.heap
        /\ threads' = [threads EXCEPT ![t].pc = "get_return"]
    /\ UNCHANGED <<log, hist>>
    /\ UNCHANGED MemOthers

GmReturn ==
    /\ \E t \in 1..Len(threads) :
        /\ At(t, "request", "get_return")
        /\ threads' = [threads EXCEPT ![t] = gm_return(memories, @)]
    /\ UNCHANGED <<memories, heap, log, hist>>
    /\ UNCHANGED MemOthers

\* memory.get_messages(), self.llm.invoke(messages): nothing shared is written
Invoke ==
    /\ \E t \in 1..Len(threads) :
        /\ At(t, "request", "invoke")
        /\ threads' = [threads EXCEPT ![t].pc = "append"]
    /\ UNCHANGED <<memories, heap, log, hist>>
    /\ UNCHANGED MemOthers

\* the ConversationMemory a call works on: log for target 0
Target(t) == IF threads[t].target = 0 THEN log ELSE heap[threads[t].target]

InMemory(t, pc) == threads[t].kind \in {"request", "log_add"} /\ threads[t].pc = pc

MsgAppend ==
    /\ \E t \in 1..Len(threads) :
        /\ InMemory(t, "append")
        /\ IF threads[t].target = 0
           THEN /\ log' = msg_append(log, threads[t])
                /\ hist' = Append(hist, Head(threads[t].pending))
                /\ UNCHANGED heap
           ELSE /\ heap' = [heap EXCEPT ![threads[t].target] = msg_append(@, threads[t])]
                /\ UNCHANGED <<log, hist>>
        /\ threads' = [threads EXCEPT ![t].pc = "test"]
    /\ UNCHANGED memories
    /\ UNCHANGED MemOthers

MsgTest ==
    /\ \E t \in 1..Len(threads) :
        /\ InMemory(t, "test")
        /\ threads' = [threads EXCEPT ![t] = msg_test(Target(t), @)]
    /\ UNCHANGED <<memories, heap, log, hist>>
    /\ UNCHANGED MemOthers

MsgSlice ==
    /\ \E t \in 1..Len(threads) :
        /\ InMemory(t, "slice")
        /\ threads' = [threads EXCEPT ![t] = msg_slice(Target(t), @)]
    /\ UNCHANGED <<memories, heap, log, hist>>
    /\ UNCHANGED MemOthers

MsgAssign ==
    /\ \E t \in 1..Len(threads) :
        /\ InMemory(t, "assign")
        /\ IF threads[t].target = 0
           THEN /\ log' = msg_assign(log, threads[t])
                /\ UNCHANGED heap
           ELSE /\ heap' = [heap EXCEPT ![threads[t].target] = msg_assign(@, threads[t])]
                /\ UNCHANGED log
        /\ threads' = [threads EXCEPT ![t] = msg_returned(@)]
    /\ UNCHANGED <<memories, hist>>
    /\ UNCHANGED MemOthers

NextMemRace ==
    \/ MemCall
    \/ GmTest \/ GmCreate \/ GmReturn \/ Invoke
    \/ MsgAppend \/ MsgTest \/ MsgSlice \/ MsgAssign

SpecMemRace == InitLog /\ [][NextMemRace]_vars

-----------------------------------------------------------------------------
(* Properties *)

Asked == last.op = "answer_question"

\* the messages of a user's log, none when the user has no log
MessagesOf(user) ==
    IF user \in DOMAIN memories THEN heap[memories[user]].messages ELSE <<>>

\* C1: after any sequence of add_chunks calls on an index that started empty,
\* count() equals the number of chunks passed in (one call: len(chunks); two
\* calls: len(A) + len(B)).
C1_CountEqualsChunksPassed == count(vectorstore) = passed

\* C2: after answer_question with a user id, when retrieval returned at least
\* one chunk, the user's log is the log before the call followed by
\* (user, query) and (assistant, A), A being the answer returned, on every path.
C2_MemoryGainsQueryAndAnswer ==
    (Asked /\ ~last.raised /\ UserGiven(last.user_id) /\ Len(last.retrieved) >= 1) =>
        MessagesOf(last.user_id[1]) =
            PySuffix(last.mem_before \o << <<"user", last.query>>,
                                          <<"assistant", last.result[1].answer>> >>,
                     DefaultMaxMessages)

\* C3: when the generation call fails and the index is not empty, the answer
\* is non-empty and built from the retrieved source texts, and total_sources
\* is the number of chunks used in the context, min(3, number of indexed
\* entries).  Stated for the requests of at least 3 chunks, where the cap of
\* 3 and the index size are all that limit the context.
C3_FallbackCountsContextChunks ==
    (Asked /\ last.llm_raised /\ last.top_k >= ContextChunks) =>
        /\ ~last.raised
        /\ StrLen(last.result[1].answer) > 0
        /\ Len(last.result[1].answer.parts) >= 1
        /\ \A i \in 1..Len(last.result[1].answer.parts) :
              last.result[1].answer.parts[i] = last.retrieved[i].text
        /\ last.result[1].total_sources = Len(last.request[1].prompt.context)
        /\ last.result[1].total_sources = Min(ContextChunks, count(vectorstore))

\* C4: the sources reported are exactly the chunks placed in the generation
\* prompt, the first min(3, number retrieved) search results, in order.
C4_SourcesAreThePromptChunks ==
    (Asked /\ ~last.raised /\ last.request /= None) =>
        LET used == Take(last.retrieved, ContextChunks)
            context == last.request[1].prompt.context
            sources == last.result[1].sources
        IN  /\ Len(context) = Len(used)
            /\ \A i \in 1..Len(used) : context[i].text = used[i].text
            /\ Len(sources) = Len(used)
            /\ \A i \in 1..Len(used) : sources[i] = chunk_source(used[i])

\* C5: generated output whose trimmed length is below 20 is answered with
\* the fallback synthesized from the top sources (the answer given when the
\* generation call raises); output of length 20 or more is returned as is.
C5_ShortOutputFallsBack ==
    (Asked /\ ~last.raised /\ last.generated /= None) =>
        LET output == strip(last.generated[1])
        IN  last.result[1].answer =
                IF StrLen(output) < MinAnswerLen
                THEN _simple_answer(last.query, last.retrieved)
                ELSE output

\* C6: on an index holding zero entries answer_question returns the fixed
\* insufficient-information answer, no sources and total_sources = 0, and
\* does not invoke the generation capability.
C6_EmptyIndexInsufficient ==
    (Asked /\ count(vectorstore) = 0) =>
        /\ ~last.raised
        /\ last.result[1].answer = NoInfoAnswer
        /\ Len(last.result[1].sources) = 0
        /\ last.result[1].total_sources = 0
        /\ last.request = None

C6_Witness ==
    Asked /\ count(vectorstore) = 0 /\ UserGiven(last.user_id) /\ last.top_k = 5

\* C7: answer_question never raises, whatever the collaborators do: it
\* returns a record with exactly the keys answer (a string), sources (a
\* list), total_sources = len(sources) and query (the query passed in).
C7_AlwaysWellFormedResult ==
    Asked =>
        /\ ~last.raised
        /\ Len(last.result) = 1
        /\ DOMAIN last.result[1] = {"answer", "sources", "total_sources", "query"}
        /\ DOMAIN last.result[1].answer = {"tag", "len", "pad", "parts"}
        /\ DOMAIN last.result[1].sources = 1..Len(last.result[1].sources)
        /\ last.result[1].total_sources = Len(last.result[1].sources)
        /\ last.result[1].query = last.query

C7_Witness == Asked /\ last.llm_raised /\ last.result /= None /\ last.top_k = 5

\* C8: a log constructed with bound N >= 1 holds, after m add_message calls,
\* exactly the last min(m, N) messages in arrival order, never more than N.
C8_LogKeepsLastN ==
    /\ Len(log.messages) = Min(Len(hist), log.max_messages)
    /\ Len(log.messages) <= log.max_messages
    /\ \A i \in 1..Len(log.messages) :
          log.messages[i] = hist[Len(hist) - Len(log.messages) + i]

C8_Witness ==
    /\ log.max_messages = DefaultMaxMessages
    /\ Len(hist) = log.max_messages + 5
    /\ Len(log.messages) = log.max_messages
    /\ hist[5] /= hist[6]

MemStep == nMem' = nMem + 1

\* C9: clear_memory(u) raises nothing and leaves u without a key in the
\* store (an unknown u: nothing changes); get_memory(u) for a user without a
\* key returns a newly allocated, empty log and stores it under u.
C9_ClearStep ==
    /\ (MemStep /\ last'.op = "clear_memory") =>
          /\ ~last'.raised
          /\ last'.user_id \notin DOMAIN memories'
          /\ last'.user_id \notin DOMAIN memories => (memories' = memories /\ heap' = heap)
    /\ (MemStep /\ last'.op = "get_memory" /\ last'.user_id \notin DOMAIN memories) =>
          /\ last'.ref = Len(heap) + 1
          /\ Len(heap') = Len(heap) + 1
          /\ heap'[last'.ref].messages = <<>>
          /\ memories'[last'.user_id] = last'.ref

C9_ClearRemovesLog == [][C9_ClearStep]_vars

\* a log obtained again after it was cleared: an older object of the same user
C9_Witness ==
    /\ last.op = "get_memory"
    /\ last.created
    /\ \E i \in 1..(last.ref - 1) : heap[i].user_id = last.user_id

\* C10: get_memory(u) raises for no user id; the first access creates an
\* empty log, every later access without a clear_memory(u) in between returns
\* the object stored under u, changing nothing, so what was appended through
\* an earlier handle is in the log the caller receives.
C10_GetStep ==
    (MemStep /\ last'.op = "get_memory") =>
        /\ ~last'.raised
        /\ handle' = Some(last'.ref)
        /\ last'.user_id \in DOMAIN memories' /\ memories'[last'.user_id] = last'.ref
        /\ IF last'.user_id \in DOMAIN memories
           THEN /\ last'.ref = memories[last'.user_id]
                /\ heap' = heap
                /\ memories' = memories
           ELSE heap'[last'.ref].messages = <<>>

C10_GetReturnsSameLog == [][C10_GetStep]_vars

C10_Witness ==
    /\ last.op = "get_memory"
    /\ ~last.created
    /\ Len(heap[last.ref].messages) >= 2

Searched == last.op = "search"
EmSearched == last.op = "em_search"

\* the number of vectors an EmbeddingManager's index holds
EmIndexSize == IF em.index = None THEN 0 ELSE Len(em.index[1])

\* C11: on an index holding zero entries search returns the empty list and
\* raises nothing, for every query and every top_k, on both vector indexes.
C11_EmptyIndexSearchIsEmpty ==
    /\ (Searched /\ count(vectorstore) = 0) =>
          (~last.raised /\ last.results = <<>>)
    /\ (EmSearched /\ EmIndexSize = 0) =>
          (~last.raised /\ last.results = <<>>)

\* a search after an upload that indexed nothing
C11_Witness ==
    /\ Searched
    /\ nAdds >= 1 /\ count(vectorstore) = 0
    /\ last.top_k = 5 /\ last.fails

\* results built one per hit from distinct, real (non-placeholder) entries:
\* entries is what the index holds, in insertion order
FromDistinctEntries(results, hits, entries) ==
    /\ Len(results) <= Len(hits)
    /\ \A i \in 1..Len(results) :
          /\ hits[i][1] >= 0 /\ hits[i][1] < Len(entries)
          /\ results[i].text = entries[hits[i][1] + 1]
    /\ \A i, j \in 1..Len(results) : i /= j => hits[i][1] /= hits[j][1]

\* the texts of a sequence of Documents
RECURSIVE PageContents(_)
PageContents(docs) ==
    IF docs = <<>> THEN <<>> ELSE <<Head(docs).page_content>> \o PageContents(Tail(docs))

\* the texts of a sequence of chunks
RECURSIVE ChunkTexts(_)
ChunkTexts(chunks) ==
    IF chunks = <<>> THEN <<>> ELSE <<Head(chunks).text>> \o ChunkTexts(Tail(chunks))

\* the property on LangChainVectorStore.search
C12_LangChainClamps ==
    (Searched /\ ~last.fails /\ last.top_k >= 1) =>
        /\ ~last.raised
        /\ Len(last.results) = Min(last.top_k, count(vectorstore))
        /\ vectorstore /= None =>
              FromDistinctEntries(last.results, last.hits, PageContents(vectorstore[1]))

\* the property on EmbeddingManager.search
C12_EmbeddingManagerClamps ==
    (EmSearched /\ ~last.fails /\ last.top_k >= 1) =>
        /\ ~last.raised
        /\ Len(last.results) = Min(last.top_k, EmbeddingManager_count(em))
        /\ FromDistinctEntries(last.results, last.hits, ChunkTexts(em.chunks))

\* C12: for every top_k >= 1 search returns exactly min(top_k, count())
\* results, each built from a distinct indexed entry, none from a
\* placeholder hit of the index.
C12_SearchClampsTopK == C12_LangChainClamps /\ C12_EmbeddingManagerClamps

\* a result list in order of non-decreasing distance
SortedByDistance(results) ==
    \A i \in 1..(Len(results) - 1) : results[i].distance <= results[i + 1].distance

\* every result carries relevance_score = 1 / (1 + distance), a value in
\* (0, 1], and the scores do not increase along the list
ScoredByDistance(results) ==
    /\ \A i \in 1..Len(results) :
          /\ "relevance_score" \in DOMAIN results[i]
          /\ results[i].relevance_score.num = 1
          /\ results[i].relevance_score.den = 1 + results[i].distance
          /\ 0 < results[i].relevance_score.num
          /\ results[i].relevance_score.num <= results[i].relevance_score.den
    /\ \A i \in 1..(Len(results) - 1) :
          results[i].relevance_score.num * results[i + 1].relevance_score.den
              >= results[i + 1].relevance_score.num * results[i].relevance_score.den

\* the property on LangChainVectorStore.search
C13_LangChainSortedAndScored ==
    Searched => (SortedByDistance(last.results) /\ ScoredByDistance(last.results))

\* the property on EmbeddingManager.search
C13_EmbeddingManagerSortedAndScored ==
    (EmSearched /\ ~last.raised) =>
        (SortedByDistance(last.results) /\ ScoredByDistance(last.results))

\* C13: every result list search returns is sorted by non-decreasing
\* distance, and every result carries relevance_score = 1 / (1 + distance),
\* which lies in (0, 1] and is non-increasing along the list.
C13_SortedAndScored ==
    C13_LangChainSortedAndScored /\ C13_EmbeddingManagerSortedAndScored

\* C14: each sources entry has the chunk text when that text has at most
\* 200 characters, otherwise its first 200 characters followed by '...';
\* its relevance_score is the one of the search result it was built from,
\* or 0.0 when that result carries none.
C14_SourcesTruncatedAndScored ==
    (last.op = "sources") =>
        /\ Len(last.sources) = Len(last.retrieved_chunks)
        /\ \A i \in 1..Len(last.sources) :
              LET chunk == last.retrieved_chunks[i]
                  source == last.sources[i]
              IN  /\ source.text.head.tag = chunk.text.tag
                  /\ source.text.head.key = chunk.text.key
                  /\ source.text.head.off = chunk.text.off
                  /\ source.text.head.len = Min(chunk.text.len, 200)
                  /\ source.text.ellipsis = (chunk.text.len > 200)
                  /\ source.relevance_score =
                        IF "relevance_score" \in DOMAIN chunk
                        THEN chunk.relevance_score
                        ELSE [num |-> 0, den |-> 1]

\* sources of a text of exactly 200 characters and of a longer one, from
\* results that carry a score
C14_Witness ==
    /\ last.op = "sources"
    /\ \E i, j \in 1..Len(last.sources) :
          /\ last.retrieved_chunks[i].text.len = 200
          /\ last.retrieved_chunks[j].text.len > 200
          /\ "relevance_score" \in DOMAIN last.retrieved_chunks[i]

C14_WitnessNoScore ==
    /\ last.op = "sources"
    /\ \E i \in 1..Len(last.sources) :
          "relevance_score" \notin DOMAIN last.retrieved_chunks[i]

\* the number of whitespace-delimited tokens of a text
TokenCount(s) ==
    Cardinality({i \in 1..Len(s) : ~IsSpace(s[i]) /\ (i = 1 \/ IsSpace(s[i - 1]))})

\* _create_overlapping_chunks was called on parser.text
Chunking == last.op = "parse_page" /\ last.page /= <<>>

\* C15: a text of at most chunk_size (500) whitespace-delimited tokens gives
\* exactly one chunk, with chunk_id '<section>_0' and word_count equal to
\* the token count.
C15_SmallTextOneChunk ==
    (Chunking /\ TokenCount(parser.text) <= parser.self.chunk_size) =>
        /\ parser.pc = "done"
        /\ Len(parser.chunks) = 1
        /\ parser.chunks[1].chunk_id = <<parser.section, 0>>
        /\ parser.chunks[1].word_count = TokenCount(parser.text)
        /\ parser.chunks[1].text = parser.text

\* a text of exactly chunk_size tokens
C15_Witness ==
    /\ Chunking /\ parser.pc = "done"
    /\ TokenCount(parser.text) = 500
    /\ parser.self = DocumentParser

\* C16: an empty or whitespace-only page text gives an empty sequence of
\* chunks and no error.
C16_BlankTextNoChunks ==
    (last.op = "parse_page" /\ TokenCount(last.page) = 0) =>
        (parser.pc = "done" /\ parser.chunks = <<>>)

\* C17: for a text of more than chunk_size tokens and every chunk i but the
\* final one, the last chunk_overlap (50) tokens of chunk i are the first
\* chunk_overlap tokens of chunk i+1.
C17_SuccessiveChunksOverlap ==
    (Chunking /\ parser.pc = "done" /\ TokenCount(parser.text) > parser.self.chunk_size) =>
        \A i \in 1..(Len(parser.chunks) - 1) :
            LastN(split(parser.chunks[i].text), parser.self.chunk_overlap)
                = Take(split(parser.chunks[i + 1].text), parser.self.chunk_overlap)

\* C18: _clean_text is idempotent: cleaning a cleaned text changes nothing.
C18_CleanTextIdempotent ==
    (last.op = "_clean_text") => last.recleaned = last.cleaned

InvalidTunables == parser.self.chunk_overlap >= parser.self.chunk_size

LoopTerminates == (parser.pc = "loop" /\ ~InvalidTunables) ~> (parser.pc = "done")

\* every add_chunks call made so far has returned
AllReturned == \A t \in 1..Len(threads) : threads[t].pc = "done"

\* the number of entries the calls of one kind add between them
RECURSIVE EntriesOf(_, _)
EntriesOf(calls, kind) ==
    IF calls = <<>> THEN 0
    ELSE (IF Head(calls).kind = kind /\ ~Head(calls).raised
          THEN Len(Head(calls).documents) ELSE 0) + EntriesOf(Tail(calls), kind)

\* C20: add_chunks calls that run concurrently on one index are serialized:
\* once all have returned, count() is the number of entries the calls added
\* between them (no batch lost or overwritten), and every stored embedding
\* is paired with the chunk it was computed from.
C20_ConcurrentAddsSerialized ==
    AllReturned =>
        /\ count(vectorstore) = EntriesOf(threads, "langchain")
        /\ EmbeddingManager_count(em) = EntriesOf(threads, "em")
        /\ EmIndexSize = EmbeddingManager_count(em)
        /\ \A i \in 1..Min(EmIndexSize, Len(em.chunks)) :
              em.index[1][i] = embed_text(em.chunks[i].text)

\* the property on LangChainVectorStore alone
C20_LangChainAddsSerialized ==
    AllReturned => count(vectorstore) = EntriesOf(threads, "langchain")

\* every result of a finished search is an entry of the index: its text is
\* one of texts and its distance is the one of that text's own embedding
WholeEntries(call, texts) ==
    \A i \in 1..Len(call.results) :
        /\ \E j \in 1..Len(texts) : texts[j] = call.results[i].text
        /\ call.results[i].distance
              = sq_l2(embed_query(call.query), embed_text(call.results[i].text))

\* the property on LangChainVectorStore
C21_LangChainSearchSeesWholeEntries ==
    \A t \in 1..Len(threads) :
        (At(t, "lc_search", "done") /\ threads[t].during) =>
            /\ ~threads[t].raised
            /\ threads[t].results /= <<>> =>
                  (vectorstore /= None
                   /\ WholeEntries(threads[t], PageContents(vectorstore[1])))

\* the property on EmbeddingManager
C21_EmbeddingManagerSearchSeesWholeEntries ==
    \A t \in 1..Len(threads) :
        (At(t, "em_search", "done") /\ threads[t].during) =>
            /\ ~threads[t].raised
            /\ WholeEntries(threads[t], ChunkTexts(em.chunks))

\* C21: a search that runs while an add_chunks call is in progress returns
\* whole entries only: every result is the text and metadata of one indexed
\* chunk together with the distance of that chunk's own embedding, the chunk
\* being one indexed before the add or one of the batch once it is added.
C21_SearchSeesWholeEntries ==
    C21_LangChainSearchSeesWholeEntries /\ C21_EmbeddingManagerSearchSeesWholeEntries

\* the number of requests made so far for a user
RECURSIVE RequestsOf(_, _)
RequestsOf(calls, user) ==
    IF calls = <<>> THEN 0
    ELSE (IF Head(calls).kind = "request" /\ Head(calls).user_id = user THEN 1 ELSE 0)
         + RequestsOf(Tail(calls), user)

\* the property on ConversationMemoryManager: the requests of a user append
\* two messages each to the log stored under the user
C22_ManagerKeepsEveryAppend ==
    AllReturned =>
        \A user \in Users :
            Len(MessagesOf(user)) = Min(2 * RequestsOf(threads, user), DefaultMaxMessages)

\* the property on ConversationMemory: the log is the last max_messages
\* messages in the order they were appended
C22_LogKeepsEveryAppend ==
    AllReturned => log.messages = LastN(hist, log.max_messages)

\* C22: when requests append to one user's memory concurrently no update is
\* lost: once all have returned, the log holds every message appended by
\* any of them, except those the bound of the log evicted (the oldest).
C22_NoLostUpdate == C22_ManagerKeepsEveryAppend /\ C22_LogKeepsEveryAppend

\* no user id was given: None, or the empty string
NoUser(user_id) == user_id = None \/ user_id[1] = ""

\* the log stored under a user is the same object with the same content
SameLog(user) ==
    /\ (user \in DOMAIN memories') = (user \in DOMAIN memories)
    /\ user \in DOMAIN memories =>
          /\ memories'[user] = memories[user]
          /\ heap'[memories'[user]] = heap[memories[user]]

\* C23: answer_question changes nothing but the log of the user it was
\* given: the vector index is unchanged, the logs of all other users are
\* unchanged, and without a user id the whole memory store is unchanged.
C23_AskStep ==
    (nAsks' = nAsks + 1) =>
        /\ vectorstore' = vectorstore
        /\ \A user \in Users :
              (NoUser(last'.user_id) \/ last'.user_id[1] /= user) => SameLog(user)
        /\ NoUser(last'.user_id) => (memories' = memories /\ heap' = heap)
        /\ <<em, disk, log>>' = <<em, disk, log>>

C23_AnswerChangesOnlyOwnLog == [][C23_AskStep]_vars

\* u1 asked and got the exchange saved while u2 has a log of its own
C23_Witness ==
    /\ Asked
    /\ last.user_id = Some("u1")
    /\ count(vectorstore) > 0
    /\ Len(MessagesOf("u1")) = Len(last.mem_before) + 2
    /\ Len(MessagesOf("u2")) >= 2

\* the property on LangChainVectorStore.add_chunks
C24_LangChainAddIsAtomic ==
    (last.op = "store_add") =>
        IF last.raised
        THEN vectorstore = last.before
        ELSE /\ count(vectorstore)
                  = count(last.before) + Len(build_documents(last.chunks))
             /\ count(vectorstore) > 0 =>
                  vectorstore[1] = (IF last.before = None THEN <<>> ELSE last.before[1])
                                   \o build_documents(last.chunks)

\* the property on EmbeddingManager.add_chunks
C24_EmbeddingManagerAddIsAtomic ==
    (last.op = "em_add_chunks") =>
        IF last.raised
        THEN /\ em.chunks = last.before.chunks
             /\ EmIndexSize = (IF last.before.index = None THEN 0
                               ELSE Len(last.before.index[1]))
        ELSE /\ em.chunks = last.before.chunks \o last.chunks
             /\ em.index[1] = (IF last.before.index = None THEN <<>>
                               ELSE last.before.index[1]) \o encode(last.chunks)

C24_WitnessEmbeddingManager ==
    /\ last.op = "em_add_chunks"
    /\ last.fails /\ last.raised
    /\ Len(last.before.chunks) > 0 /\ Len(last.chunks) >= 2

\* C25: a failing save or load is never fatal: after a failed save
\* add_chunks returns normally and the index in memory holds the new
\* entries; after a failed load the constructor returns an empty index.
C25_PersistenceFailureNotFatal ==
    /\ (last.op = "store_add" /\ last.saveFails /\ ~last.embedFails) =>
          /\ ~last.raised
          /\ count(vectorstore)
                = count(last.before) + Len(build_documents(last.chunks))
    /\ (last.op = "construct" /\ last.load_failed) =>
          (~last.raised /\ count(vectorstore) = 0)

\* a start over a directory that a failed save left half-written
C25_Witness ==
    /\ last.op = "construct" /\ last.load_failed
    /\ disk.exists /\ ~disk.readable
    /\ nAdds >= 1

\* a failed save of a batch that was indexed
C25_WitnessSave ==
    /\ last.op = "store_add" /\ last.saveFails /\ ~last.embedFails
    /\ count(vectorstore) > count(last.before)

\* a question the handler must not accept
InvalidInput(query, top_k) == ~Truthy(strip(query)) \/ top_k < 1

\* C26: a question with an empty or whitespace-only query or a non-positive
\* top_k is rejected before rag_service.answer_question is called, and the
\* caller receives the 400 rejection raised for it.
C26_InvalidInputRejectedAs400 ==
    (last.op = "ask" /\ InvalidInput(last.query, last.top_k)) =>
        (~last.called /\ last.response.status = 400)

\* the half of C26 the handler keeps: no retrieval or generation work
C26_InvalidInputDoesNoWork ==
    (last.op = "ask" /\ InvalidInput(last.query, last.top_k)) =>
        (~last.called /\ last.response.status /= 200 /\ last.response.inner = 400)

\* a question that is valid input
ValidQuestion == last.op = "ask" /\ ~InvalidInput(last.query, last.top_k) /\ last.top_k <= 20

\* C27: when the tutor cannot be initialised (no API key) but the vector
\* store initialises, the system starts, the index keeps working, and a
\* question is answered with a service-unavailable signal (503), distinct
\* from the no-results answer.
C27_DegradedModeSignalsUnavailable ==
    (app.started /\ app.store_constructs /\ ~app.api_key) =>
        /\ app.vector_store
        /\ ValidQuestion => last.response.status = 503

\* what holds of C27: the store is usable and the response differs from a
\* normal result
C27_DegradedModeKeepsStore ==
    (app.started /\ app.store_constructs /\ ~app.api_key) =>
        /\ app.vector_store
        /\ (last.op = "upload" /\ last.response.status = 200) =>
              last.response.body.total_documents = count(vectorstore)
        /\ ValidQuestion => (last.response.status /= 200 /\ last.response.inner = 503)

\* C28: whenever the index is non-empty and the generation call succeeds,
\* the result answer_question returns is the one the retrieval chain
\* produced; the manual fallback runs only after the chain has raised.
C28_ChainAnswersFirst ==
    (/\ last.op = "answer_question"
     /\ count(vectorstore) > 0
     /\ last.generated /= None
     /\ ~last.raised) => last.path = "chain"

\* C29: after the startup sequence, if the vector store, the memory
\* manager, the tutor and the quiz generator all construct, rag_service is
\* not None; it is None only when the vector store or the tutor failed.
C29_RagServiceBound ==
    app.started =>
        (app.rag_service <=> (app.store_constructs /\ app.api_key))

\* what holds instead: rag_service is None after every startup
C29_RagServiceNeverBound == app.started => ~app.rag_service

\* a text longer than one window went through the loop of a parser whose
\* windows advance
Windowed ==
    /\ Chunking /\ parser.pc = "done"
    /\ parser.self.chunk_overlap < parser.self.chunk_size
    /\ TokenCount(parser.text) > parser.self.chunk_size

\* the end of window k (0-based) over n tokens
WindowEnd(k, n) ==
    Min(k * (parser.self.chunk_size - parser.self.chunk_overlap)
          + parser.self.chunk_size, n)

\* chunk k is '<section>_k' and holds the tokens of window k
C30_ChunksCoverWindows ==
    Windowed =>
        LET words == split(parser.text)
            step == parser.self.chunk_size - parser.self.chunk_overlap
        IN  \A k \in 0..(Len(parser.chunks) - 1) :
                /\ parser.chunks[k + 1].chunk_id = <<parser.section, k>>
                /\ split(parser.chunks[k + 1].text)
                     = SubSeq(words, k * step + 1, WindowEnd(k, Len(words)))

\* every chunk after the first ends beyond the end of the chunk before it
C30_EveryChunkAddsTokens ==
    Windowed =>
        \A k \in 1..(Len(parser.chunks) - 1) :
            WindowEnd(k, Len(parser.words)) > WindowEnd(k - 1, Len(parser.words))

\* C30: for a text of n > chunk_size tokens, chunk k has id '<section>_k'
\* and covers tokens [k*(chunk_size - chunk_overlap), min(k*(chunk_size -
\* chunk_overlap) + chunk_size, n)), ids run from 0 without gaps, and every
\* chunk, the final one included, holds a token that no earlier chunk holds.
C30_WindowsCoverAndAdvance == C30_ChunksCoverWindows /\ C30_EveryChunkAddsTokens

====
